---- MODULE Spec2Model ----
(***************************************************************************)
(* Model of btrfs-backup-rs: the stream concatenation engine               *)
(* (src/src/btrfs_concat.rs over the codec of src/src/btrfs.rs) and the    *)
(* orphan detection of the repository (src/src/repository.rs).             *)
(*                                                                         *)
(* Streams are byte sequences exactly as on the wire.  TLC integers are    *)
(* 32 bits wide, so every multi-byte integer of the inputs keeps its top   *)
(* bytes clear; the code is single threaded, so each specification is a    *)
(* deterministic run from a nondeterministically chosen input.             *)
(***************************************************************************)
EXTENDS Integers, Sequences, FiniteSets, TLC

VARIABLES
    \* ---- concat tool: the input files and the process
    files,          \* files[i]: the bytes of input path P(i-1), in argument order
    pc,             \* "main" | "write_out" | "iter" | "exit"
    outcome,        \* "" while running; how main ended otherwise
    stdout_w,       \* sequence of the byte strings written to stdout
    \* ---- BtrfsCommandConcatIter fields
    paths,          \* RingBuf<Path>: indices of the unopened middle files
    current_path,   \* Option<Path>
    reader,         \* Option<reader>: [file, pos]
    last_snap_cmd,  \* Option<BtrfsSnapshot>
    last_reader,    \* Option<reader>
    curr_uuid,      \* Option<Uuid>
    \* ---- history of the frames fetched by next() (not program state)
    fetched,
    \* ---- Repository::find_orphans
    nodes,          \* Vec<BackupNode>: [uuid, parent_uuid]
    fpc,            \* "idle" | "partition" | "loop" | "collect" | "done"
    root_reachable, \* HashSet<Uuid>
    records,        \* Vec<FsckReachabilityRecord>
    changed,
    reachables_found,
    total_scanned,
    passes,         \* number of completed passes of the loop (history)
    out,            \* the returned HashSet<Uuid>
    \* ---- Repository::load
    dir,            \* readdir(root): dir[i] is the content of the i-th path
    lpc,            \* "idle" | "files" | "done" | "panic" | "nofsck" | "reported"
    lidx,           \* the path the for loop of load is at
    repo_nodes,     \* self.nodes: [uuid, parent_uuid, path, kind]
    nodes_before,   \* self.nodes before the orphans were filtered (history)
    printed,        \* server_fsck: the paths of the `orphan: <path>` lines on stdout
    \* ---- ProtocolServer::run: a session over stdin/stdout
    sin,            \* the bytes the client sends
    rpos,           \* bytes of sin consumed by the reader
    sout,           \* the bytes written to the client
    spc,            \* "idle" | "magic" | "opcode" | "dispatch" | "end"
    fsys,           \* the files under <root>: [name, object, complete]
    srepo,          \* the Repository the session was started with
    txn,            \* the dispatch in progress: command and upload steps
    events,         \* history of reads, dispatches and file operations
    \* ---- a call sequence on the codec of btrfs.rs
    cjob,           \* the operation under test and its input
    cpc,            \* "idle" | "call" | "done"
    cres,           \* the value the operation returned
    cit,            \* Option<BtrfsCommandIter>: [pos, is_finished]
    ccalls          \* history of the calls to next(): result and bytes read

concat_vars == <<files, pc, outcome, stdout_w, paths, current_path, reader,
                 last_snap_cmd, last_reader, curr_uuid, fetched>>
fsck_vars == <<nodes, fpc, root_reachable, records, changed,
               reachables_found, total_scanned, passes, out>>
load_vars == <<dir, lpc, lidx, repo_nodes, nodes_before, printed>>
server_vars == <<sin, rpos, sout, spc, fsys, srepo, txn, events>>
codec_vars == <<cjob, cpc, cres, cit, ccalls>>
vars == <<concat_vars, fsck_vars, load_vars, server_vars, codec_vars>>

----------------------------------------------------------------------------
(* Option<T> is a sequence of length at most one. *)
None == <<>>
Some(x) == <<x>>
is_some(o) == o # <<>>
unwrap(o) == o[1]

(* Result values. *)
Ok(v) == [tag |-> "Ok", val |-> v]
Err(e) == [tag |-> "Err", err |-> e]
is_ok(r) == r.tag = "Ok"

(* `let v = e;` followed by the rest of the block K: e is evaluated once   *)
(* and its value bound to the parameter of K.                              *)
Let(e, K(_)) == CHOOSE result \in { K(v) : v \in {e} } : TRUE

----------------------------------------------------------------------------
(* Little-endian integers: the read_le_u16/u32/u64 and write_le_u16/u32/u64 *)
(* methods of Reader and Writer.                                           *)
RECURSIVE le_value(_)
le_value(bytes) ==
    IF bytes = <<>> THEN 0 ELSE Head(bytes) + 256 * le_value(Tail(bytes))

RECURSIVE write_le(_, _)
write_le(n, width) ==
    IF width = 0 THEN <<>> ELSE <<n % 256>> \o write_le(n \div 256, width - 1)

\* A cursor over a byte slice: read `width` bytes at offset pos.
read_le(bytes, pos, width) ==
    IF pos + width > Len(bytes) THEN Err("EndOfFile")
    ELSE Ok([v |-> le_value(SubSeq(bytes, pos + 1, pos + width)), pos |-> pos + width])

read_exact(bytes, pos, n) ==
    IF pos + n > Len(bytes) THEN Err("EndOfFile")
    ELSE Ok([v |-> SubSeq(bytes, pos + 1, pos + n), pos |-> pos + n])

DropBytes(bytes, n) == SubSeq(bytes, n + 1, Len(bytes))

----------------------------------------------------------------------------
(* crc32 module: crc32c(seed, bytes).  A running checksum with the same    *)
(* incremental signature, folded over the bytes from left to right (the    *)
(* slice is halved to keep the evaluation shallow); its value stays below  *)
(* 2^16.                                                                   *)
CrcModulus == 65521

RECURSIVE crc32c(_, _)
crc32c(state, bytes) ==
    IF bytes = <<>> THEN state
    ELSE IF Len(bytes) = 1 THEN (state * 31 + bytes[1] + 1) % CrcModulus
    ELSE Let(crc32c(state, SubSeq(bytes, 1, Len(bytes) \div 2)), LAMBDA left :
             crc32c(left, SubSeq(bytes, Len(bytes) \div 2 + 1, Len(bytes))))

----------------------------------------------------------------------------
(* btrfs.rs: command kinds *)
BTRFS_SEND_C_SUBVOL == 1
BTRFS_SEND_C_SNAPSHOT == 2
BTRFS_SEND_C_WRITE == 15
BTRFS_SEND_C_END == 21
BTRFS_SEND_C_UPDATE_EXTENT == 22

\* FromPrimitive::from_u16 for BtrfsCommandType
from_u16(n) == IF n <= BTRFS_SEND_C_UPDATE_EXTENT THEN Some(n) ELSE None

BTRFS_HEADER_MAGIC == <<98, 116, 114, 102, 115, 45, 115, 116, 114, 101, 97, 109, 0>>

\* A parse that does not compare the magic
BtrfsHeader_parse_any_magic(bytes, pos) ==
    Let(read_exact(bytes, pos, Len(BTRFS_HEADER_MAGIC)), LAMBDA magic :
    IF ~is_ok(magic) THEN Err([kind |-> "ReadError", io |-> magic.err])
    ELSE Let(read_le(bytes, magic.val.pos, 4), LAMBDA version :
         IF ~is_ok(version) THEN Err([kind |-> "ReadError", io |-> version.err])
         ELSE Ok([version |-> version.val.v, pos |-> version.val.pos])))

\* BtrfsHeader::parse over a reader at offset pos
BtrfsHeader_parse(bytes, pos) ==
    Let(read_exact(bytes, pos, Len(BTRFS_HEADER_MAGIC)), LAMBDA magic :
    IF ~is_ok(magic) THEN Err([kind |-> "ReadError", io |-> magic.err])
    ELSE IF magic.val.v # BTRFS_HEADER_MAGIC
         THEN Err([kind |-> "ProtocolError", io |-> "Invalid magic"])
    ELSE Let(read_le(bytes, magic.val.pos, 4), LAMBDA version :
         IF ~is_ok(version) THEN Err([kind |-> "ReadError", io |-> version.err])
         ELSE Ok([version |-> version.val.v, pos |-> version.val.pos])))

BtrfsHeader_serialize(header) == BTRFS_HEADER_MAGIC \o write_le(header.version, 4)

----------------------------------------------------------------------------
(* BtrfsCommandBuf: the raw frame, 10 header bytes and the payload *)
get_kind(buf) == from_u16(le_value(SubSeq(buf, 5, 6)))
get_crc32(buf) == le_value(SubSeq(buf, 7, 10))
get_data(buf) == DropBytes(buf, 10)

\* A calculate_crc32 over the buffer as it stands, stored CRC included
BtrfsCommandBuf_calculate_crc32_unblanked(buf) ==
    crc32c(crc32c(crc32c(0, SubSeq(buf, 1, 6)), SubSeq(buf, 7, 10)), DropBytes(buf, 10))

BtrfsCommandBuf_calculate_crc32(buf) ==
    crc32c(crc32c(crc32c(0, SubSeq(buf, 1, 6)), <<0, 0, 0, 0>>), DropBytes(buf, 10))

BtrfsCommandBuf_validate_crc32(buf) ==
    BtrfsCommandBuf_calculate_crc32(buf) = get_crc32(buf)

\* BtrfsCommandBuf::read: the length, then exactly 2 + 4 + len bytes
BtrfsCommandBuf_read(bytes, pos) ==
    Let(read_le(bytes, pos, 4), LAMBDA len :
    IF ~is_ok(len) THEN Err("EndOfFile")
    ELSE Let(2 + 4 + len.val.v, LAMBDA want_bytes :
         IF len.val.pos + want_bytes > Len(bytes) THEN Err("EndOfFile")
         ELSE Ok([buf |-> SubSeq(bytes, pos + 1, pos + 4 + want_bytes),
                  pos |-> pos + 4 + want_bytes])))

\* BtrfsCommand::parse; from_u16(..).unwrap() panics on an unknown kind
BtrfsCommand_parse(bytes, pos) ==
    Let(read_le(bytes, pos, 4), LAMBDA len :
    IF ~is_ok(len) THEN Err([kind |-> "ReadError", io |-> len.err])
    ELSE Let(read_le(bytes, len.val.pos, 2), LAMBDA command :
    IF ~is_ok(command) THEN Err([kind |-> "ReadError", io |-> command.err])
    ELSE Let(read_le(bytes, command.val.pos, 4), LAMBDA crc32 :
    IF ~is_ok(crc32) THEN Err([kind |-> "ReadError", io |-> crc32.err])
    ELSE Let(read_exact(bytes, crc32.val.pos, len.val.v), LAMBDA buf :
    IF ~is_ok(buf) THEN Err([kind |-> "ReadError", io |-> buf.err])
    ELSE IF ~is_some(from_u16(command.val.v))
         THEN [tag |-> "Panic", msg |-> "unwrap on None: command kind"]
    ELSE Ok([len |-> len.val.v, kind |-> command.val.v, crc32 |-> crc32.val.v,
             data |-> buf.val.v, pos |-> buf.val.pos])))))

BtrfsCommandBuf_parse(buf) == BtrfsCommand_parse(buf, 0)

\* BtrfsParseError::is_eof
is_eof(err) == err.kind = "ReadError" /\ err.io = "EndOfFile"

\* BtrfsCommand::calculate_crc32: the header with a zero crc field, then the data
BtrfsCommand_calculate_crc32(cmd) ==
    crc32c(0, write_le(cmd.len, 4) \o write_le(cmd.kind, 2) \o write_le(0, 4) \o cmd.data)

BtrfsCommand_from_kind(kind, data) ==
    LET cmd == [len |-> Len(data), kind |-> kind, crc32 |-> 0, data |-> data] IN
    [cmd EXCEPT !.crc32 = BtrfsCommand_calculate_crc32(cmd)]

\* A serialize that writes the crc32 field as it stands
BtrfsCommand_serialize_stored_crc(cmd) ==
    write_le(cmd.len, 4) \o write_le(cmd.kind, 2) \o write_le(cmd.crc32, 4) \o cmd.data

BtrfsCommand_serialize(cmd) ==
    LET self_w_crc == [cmd EXCEPT !.crc32 = BtrfsCommand_calculate_crc32(cmd)] IN
    write_le(self_w_crc.len, 4) \o write_le(self_w_crc.kind, 2)
        \o write_le(self_w_crc.crc32, 4) \o self_w_crc.data

----------------------------------------------------------------------------
(* TLV entries and the typed payloads *)
tlv_read(bytes, pos) ==
    Let(read_le(bytes, pos, 2), LAMBDA tlv_type :
    IF ~is_ok(tlv_type) THEN Err("EndOfFile")
    ELSE Let(read_le(bytes, tlv_type.val.pos, 2), LAMBDA tlv_len :
    IF ~is_ok(tlv_len) THEN Err("EndOfFile")
    ELSE Let(read_exact(bytes, tlv_len.val.pos, tlv_len.val.v), LAMBDA data :
    IF ~is_ok(data) THEN Err("EndOfFile")
    ELSE Ok([type_num |-> tlv_type.val.v, data |-> data.val.v, pos |-> data.val.pos]))))

tlv_push(tlv_type, buf) == write_le(tlv_type, 2) \o write_le(Len(buf), 2) \o buf

\* Uuid::from_bytes: exactly 16 bytes
Uuid_from_bytes(b) == IF Len(b) = 16 THEN Some(b) ELSE None

\* The uuid TLV arm shared by the typed parsers
parse_uuid_tlv(bytes, pos, want) ==
    Let(tlv_read(bytes, pos), LAMBDA t :
    IF ~is_ok(t) THEN Err([kind |-> "ReadError", io |-> t.err])
    ELSE IF t.val.type_num # want THEN Err([kind |-> "ProtocolError", io |-> "Unknown type"])
    ELSE IF ~is_some(Uuid_from_bytes(t.val.data))
         THEN Err([kind |-> "ProtocolError", io |-> "Bad UUID"])
    ELSE Ok([v |-> unwrap(Uuid_from_bytes(t.val.data)), pos |-> t.val.pos]))

\* The transid TLV arm: read_le_u64 over the value takes its first 8 bytes
parse_transid_tlv(bytes, pos, want) ==
    Let(tlv_read(bytes, pos), LAMBDA t :
    IF ~is_ok(t) THEN Err([kind |-> "ReadError", io |-> t.err])
    ELSE IF t.val.type_num # want THEN Err([kind |-> "ProtocolError", io |-> "Unknown type"])
    ELSE Let(read_le(t.val.data, 0, 8), LAMBDA val :
         IF ~is_ok(val) THEN Err([kind |-> "ProtocolError", io |-> "Err"])
         ELSE Ok([v |-> val.val.v, pos |-> t.val.pos])))

\* The name TLV arm
parse_name_tlv(bytes, pos) ==
    Let(tlv_read(bytes, pos), LAMBDA t :
    IF ~is_ok(t) THEN Err([kind |-> "ReadError", io |-> t.err])
    ELSE IF t.val.type_num # 15 THEN Err([kind |-> "ProtocolError", io |-> "Unknown type"])
    ELSE Ok([v |-> t.val.data, pos |-> t.val.pos]))

BtrfsSubvol_parse(data) ==
    Let(parse_name_tlv(data, 0), LAMBDA name :
    IF ~is_ok(name) THEN name
    ELSE Let(parse_uuid_tlv(data, name.val.pos, 1), LAMBDA uuid :
    IF ~is_ok(uuid) THEN uuid
    ELSE Let(parse_transid_tlv(data, uuid.val.pos, 2), LAMBDA ctransid :
    IF ~is_ok(ctransid) THEN ctransid
    ELSE Ok([name |-> name.val.v, uuid |-> uuid.val.v, ctransid |-> ctransid.val.v]))))

BtrfsSubvol_encap(subv) ==
    BtrfsCommand_from_kind(BTRFS_SEND_C_SUBVOL,
        tlv_push(15, subv.name) \o tlv_push(1, subv.uuid)
            \o write_le(2, 2) \o write_le(8, 2) \o write_le(subv.ctransid, 8))

BtrfsSnapshot_parse(data) ==
    Let(parse_name_tlv(data, 0), LAMBDA name :
    IF ~is_ok(name) THEN name
    ELSE Let(parse_uuid_tlv(data, name.val.pos, 1), LAMBDA uuid :
    IF ~is_ok(uuid) THEN uuid
    ELSE Let(parse_transid_tlv(data, uuid.val.pos, 2), LAMBDA ctransid :
    IF ~is_ok(ctransid) THEN ctransid
    ELSE Let(parse_uuid_tlv(data, ctransid.val.pos, 20), LAMBDA clone_uuid :
    IF ~is_ok(clone_uuid) THEN clone_uuid
    ELSE Let(parse_transid_tlv(data, clone_uuid.val.pos, 21), LAMBDA clone_ctransid :
    IF ~is_ok(clone_ctransid) THEN clone_ctransid
    ELSE Ok([name |-> name.val.v, uuid |-> uuid.val.v, ctransid |-> ctransid.val.v,
             clone_uuid |-> clone_uuid.val.v,
             clone_ctransid |-> clone_ctransid.val.v]))))))

BtrfsSnapshot_encap(snap) ==
    BtrfsCommand_from_kind(BTRFS_SEND_C_SNAPSHOT,
        tlv_push(15, snap.name) \o tlv_push(1, snap.uuid)
            \o write_le(2, 2) \o write_le(8, 2) \o write_le(snap.ctransid, 8)
            \o tlv_push(20, snap.clone_uuid)
            \o write_le(21, 2) \o write_le(8, 2) \o write_le(snap.clone_ctransid, 8))

----------------------------------------------------------------------------
(* btrfs_concat.rs: BtrfsCommandConcatIter *)
NoFile == <<-1>>

\* File::open followed by BufferedReader::new
File_open(path) ==
    IF files[path] = NoFile THEN Err("FileNotFound")
    ELSE Ok([file |-> path, pos |-> 0])

Panic(msg) == [tag |-> "Panic", msg |-> msg]

\* BtrfsHeader::parse(..).unwrap().version asserted to be 1
open_with_header(path) ==
    Let(File_open(path), LAMBDA f :
    IF ~is_ok(f) THEN Err([kind |-> "ReadError", io |-> f.err])
    ELSE Let(BtrfsHeader_parse(files[path], 0), LAMBDA h :
         IF ~is_ok(h) THEN Panic("header")
         ELSE IF h.val.version # 1 THEN Panic("header")
         ELSE Ok([file |-> path, pos |-> h.val.pos])))

\* BtrfsCommandConcatIter::new
new(arg_paths) ==
    IF Len(arg_paths) < 2 THEN Panic("Insufficient number of paths")
    ELSE
    Let(arg_paths[Len(arg_paths)], LAMBDA last_path :
    Let(SubSeq(arg_paths, 1, Len(arg_paths) - 1), LAMBDA rest :
    Let(open_with_header(last_path), LAMBDA last_rd :
    IF ~is_ok(last_rd) THEN last_rd
    ELSE
    Let(BtrfsCommandBuf_read(files[last_path], last_rd.val.pos), LAMBDA command :
    IF ~is_ok(command) THEN Panic("error reading last command")
    ELSE
    Let(BtrfsSnapshot_parse(get_data(command.val.buf)), LAMBDA snapshot :
    IF ~is_ok(snapshot) THEN Panic("error reading last snapshot")
    ELSE
    Let(open_with_header(Head(rest)), LAMBDA first_rd :
    IF ~is_ok(first_rd) THEN first_rd
    ELSE Ok([paths |-> Tail(rest),
             current_path |-> None,
             reader |-> Some(first_rd.val),
             last_snap_cmd |-> Some(snapshot.val),
             last_reader |-> Some([file |-> last_path, pos |-> command.val.pos]),
             curr_uuid |-> None])))))))

\* A validation hook that accepts a SUBVOL whatever uuid is held
validation_hook_any_subvol(self, command) ==
    IF get_kind(command) = Some(BTRFS_SEND_C_SUBVOL) THEN
        Let(BtrfsSubvol_parse(get_data(command)), LAMBDA subvol :
        IF ~is_ok(subvol) THEN Panic("load")
        ELSE [tag |-> "Ok", self |-> [self EXCEPT !.curr_uuid = Some(subvol.val.uuid)]])
    ELSE IF get_kind(command) = Some(BTRFS_SEND_C_SNAPSHOT) THEN
        Let(BtrfsSnapshot_parse(get_data(command)), LAMBDA snap :
        IF ~is_ok(snap) THEN Panic("load")
        ELSE IF self.curr_uuid # Some(snap.val.clone_uuid) THEN Panic("chain break")
        ELSE [tag |-> "Ok", self |-> [self EXCEPT !.curr_uuid = Some(snap.val.uuid)]])
    ELSE [tag |-> "Ok", self |-> self]

\* BtrfsCommandConcatIter::validation_hook
validation_hook(self, command) ==
    IF get_kind(command) = Some(BTRFS_SEND_C_SUBVOL) THEN
        IF is_some(self.curr_uuid) THEN Panic("assert curr_uuid.is_none")
        ELSE Let(BtrfsSubvol_parse(get_data(command)), LAMBDA subvol :
             IF ~is_ok(subvol) THEN Panic("load")
             ELSE [tag |-> "Ok", self |-> [self EXCEPT !.curr_uuid = Some(subvol.val.uuid)]])
    ELSE IF get_kind(command) = Some(BTRFS_SEND_C_SNAPSHOT) THEN
        Let(BtrfsSnapshot_parse(get_data(command)), LAMBDA snap :
        IF ~is_ok(snap) THEN Panic("load")
        ELSE IF self.curr_uuid # Some(snap.val.clone_uuid) THEN Panic("chain break")
        ELSE [tag |-> "Ok", self |-> [self EXCEPT !.curr_uuid = Some(snap.val.uuid)]])
    ELSE [tag |-> "Ok", self |-> self]

\* A suppress_command that forgets the SNAPSHOT arm
suppress_command_end_only(self, command) ==
    get_kind(command) = Some(BTRFS_SEND_C_END) /\ is_some(self.last_reader)

\* BtrfsCommandConcatIter::suppress_command
suppress_command(self, command) ==
    \/ (get_kind(command) = Some(BTRFS_SEND_C_END) /\ is_some(self.last_reader))
    \/ get_kind(command) = Some(BTRFS_SEND_C_SNAPSHOT)

\* A transform that consumes the adopted name without rewriting the frame
transform_keep_name(self, command) ==
    IF is_some(self.last_snap_cmd) /\ get_kind(command) = Some(BTRFS_SEND_C_SUBVOL)
    THEN [tag |-> "Ok", self |-> [self EXCEPT !.last_snap_cmd = None], buf |-> command]
    ELSE [tag |-> "Ok", self |-> self, buf |-> command]

\* A transform that rewrites every frame with the CRC computed over it
transform_recrc(self, command) ==
    IF is_some(self.last_snap_cmd) /\ get_kind(command) = Some(BTRFS_SEND_C_SUBVOL) THEN
        Let(BtrfsSubvol_parse(get_data(command)), LAMBDA loaded :
        IF ~is_ok(loaded) THEN Panic("unwrap")
        ELSE
        Let([loaded.val EXCEPT !.name = unwrap(self.last_snap_cmd).name], LAMBDA subv :
        Let(BtrfsCommand_serialize(BtrfsSubvol_encap(subv)), LAMBDA encapped :
        Let(BtrfsCommandBuf_read(encapped, 0), LAMBDA reread :
        IF ~is_ok(reread) THEN Panic("unwrap")
        ELSE [tag |-> "Ok", self |-> [self EXCEPT !.last_snap_cmd = None],
              buf |-> reread.val.buf]))))
    ELSE [tag |-> "Ok", self |-> self,
          buf |-> SubSeq(command, 1, 6)
                     \o write_le(BtrfsCommandBuf_calculate_crc32(command), 4)
                     \o get_data(command)]

\* BtrfsCommandConcatIter::transform
transform(self, command) ==
    IF is_some(self.last_snap_cmd) /\ get_kind(command) = Some(BTRFS_SEND_C_SUBVOL) THEN
        Let(BtrfsSubvol_parse(get_data(command)), LAMBDA loaded :
        IF ~is_ok(loaded) THEN Panic("unwrap")
        ELSE
        Let([loaded.val EXCEPT !.name = unwrap(self.last_snap_cmd).name], LAMBDA subv :
        Let(BtrfsCommand_serialize(BtrfsSubvol_encap(subv)), LAMBDA encapped :
        Let(BtrfsCommandBuf_read(encapped, 0), LAMBDA reread :
        IF ~is_ok(reread) THEN Panic("unwrap")
        ELSE [tag |-> "Ok", self |-> [self EXCEPT !.last_snap_cmd = None],
              buf |-> reread.val.buf]))))
    ELSE [tag |-> "Ok", self |-> self, buf |-> command]

\* The Option<BtrfsParseResult<BtrfsCommandBuf>> of current_command, with the
\* frame as read (raw) and the file it came from (src) kept for the history.
CmdOk(self, buf, raw, src) ==
    [self |-> self, tag |-> "Ok", buf |-> buf, raw |-> raw, src |-> src, err |-> "", msg |-> ""]
CmdErr(self, err) ==
    [self |-> self, tag |-> "Err", buf |-> <<>>, raw |-> <<>>, src |-> 0, err |-> err, msg |-> ""]
CmdNone(self) ==
    [self |-> self, tag |-> "None", buf |-> <<>>, raw |-> <<>>, src |-> 0, err |-> "", msg |-> ""]
CmdPanic(self, msg) ==
    [self |-> self, tag |-> "Panic", buf |-> <<>>, raw |-> <<>>, src |-> 0, err |-> "", msg |-> msg]
CmdFallThrough(self) ==
    [self |-> self, tag |-> "FallThrough", buf |-> <<>>, raw |-> <<>>, src |-> 0, err |-> "", msg |-> ""]

\* current_command, lines 138-154: the read from the active reader
read_active(self) ==
    IF is_some(self.reader) THEN
        Let(unwrap(self.reader), LAMBDA rd :
        Let(BtrfsCommandBuf_read(files[rd.file], rd.pos), LAMBDA r :
        IF ~is_ok(r) THEN CmdErr(self, [kind |-> "ReadError", io |-> r.err])
        ELSE
        Let([self EXCEPT !.reader = Some([rd EXCEPT !.pos = r.val.pos])], LAMBDA self1 :
        Let(validation_hook(self1, r.val.buf), LAMBDA v :
        IF v.tag = "Panic" THEN CmdPanic(self1, v.msg)
        ELSE
        Let(BtrfsCommandBuf_parse(r.val.buf), LAMBDA p :
        IF p.tag = "Panic" THEN CmdPanic(v.self, p.msg)
        ELSE IF is_ok(p) THEN
            Let(transform(v.self, r.val.buf), LAMBDA t :
            IF t.tag = "Panic" THEN CmdPanic(v.self, t.msg)
            ELSE CmdOk(t.self, t.buf, r.val.buf, rd.file))
        ELSE IF is_eof(p.err) THEN CmdFallThrough([v.self EXCEPT !.reader = None])
        ELSE CmdErr(v.self, p.err))))))
    ELSE CmdFallThrough(self)

\* BtrfsCommandConcatIter::current_command
RECURSIVE current_command(_)
current_command(self) ==
    Let(read_active(self), LAMBDA a :
    IF a.tag # "FallThrough" THEN a
    ELSE
    Let(a.self, LAMBDA s :
    IF s.paths = <<>> /\ is_some(s.last_reader)
    THEN current_command([s EXCEPT !.reader = s.last_reader, !.last_reader = None])
    ELSE IF s.paths = <<>> THEN CmdNone(s)
    ELSE
    Let(Head(s.paths), LAMBDA path :
    Let([s EXCEPT !.paths = Tail(s.paths)], LAMBDA s1 :
    Let(File_open(path), LAMBDA f :
    IF ~is_ok(f) THEN CmdErr(s1, [kind |-> "ReadError", io |-> f.err])
    ELSE
    Let(BtrfsHeader_parse(files[path], 0), LAMBDA h :
    IF ~is_ok(h) THEN CmdPanic(s1, "header")
    ELSE IF h.val.version # 1 THEN CmdPanic(s1, "header")
    ELSE current_command([s1 EXCEPT !.reader = Some([file |-> path, pos |-> h.val.pos]),
                                    !.current_path = Some(path)])))))))

Self ==
    [paths |-> paths, current_path |-> current_path, reader |-> reader,
     last_snap_cmd |-> last_snap_cmd, last_reader |-> last_reader,
     curr_uuid |-> curr_uuid]

SetSelf(s) ==
    /\ paths' = s.paths
    /\ current_path' = s.current_path
    /\ reader' = s.reader
    /\ last_snap_cmd' = s.last_snap_cmd
    /\ last_reader' = s.last_reader
    /\ curr_uuid' = s.curr_uuid

----------------------------------------------------------------------------
(* Input streams of the concat specification *)
MaxFrames == 3      \* frames in the head file
MaxFiles == 3       \* input paths on the command line

Uuid(n) == [i \in 1..16 |-> n]
NameA == <<65>>
NameB == <<66>>
NameC == <<67, 67>>

RawFrame(kind, crc, data) ==
    write_le(Len(data), 4) \o write_le(kind, 2) \o write_le(crc, 4) \o data

GoodFrame(kind, data) ==
    RawFrame(kind,
             crc32c(0, write_le(Len(data), 4) \o write_le(kind, 2) \o <<0, 0, 0, 0>> \o data),
             data)

Tlv(tag, value) == write_le(tag, 2) \o write_le(Len(value), 2) \o value

SubvolFrame(name, u) ==
    GoodFrame(BTRFS_SEND_C_SUBVOL,
              Tlv(15, name) \o Tlv(1, Uuid(u)) \o Tlv(2, write_le(7, 8)))

SnapshotFrame(name, u, cu) ==
    GoodFrame(BTRFS_SEND_C_SNAPSHOT,
              Tlv(15, name) \o Tlv(1, Uuid(u)) \o Tlv(2, write_le(7 + u, 8))
                  \o Tlv(20, Uuid(cu)) \o Tlv(21, write_le(7, 8)))

WriteFrame(x) == GoodFrame(BTRFS_SEND_C_WRITE, <<x>>)
EndFrame == GoodFrame(BTRFS_SEND_C_END, <<>>)
UnknownKindFrame == GoodFrame(99, <<9>>)
BadCrcFrame == RawFrame(BTRFS_SEND_C_WRITE, 0, <<120>>)

StreamHeader == BTRFS_HEADER_MAGIC \o write_le(1, 4)

RECURSIVE Flatten(_)
Flatten(ss) == IF ss = <<>> THEN <<>> ELSE Head(ss) \o Flatten(Tail(ss))

StreamFile(frames) == StreamHeader \o Flatten(frames)

HeadFrames ==
    { SubvolFrame(NameA, 1), SnapshotFrame(NameB, 2, 1), SnapshotFrame(NameB, 3, 9),
      WriteFrame(120), EndFrame, UnknownKindFrame }

\* Head files with a frame whose stored CRC is wrong, and head files that end
\* inside a frame: in its length, in its kind, in its CRC, before its payload
DamagedHeadFiles ==
    { StreamFile(<<SubvolFrame(NameA, 1), BadCrcFrame, WriteFrame(120), EndFrame>>),
      StreamFile(<<BadCrcFrame, SubvolFrame(NameA, 1)>>) }
    \cup { StreamFile(<<SubvolFrame(NameA, 1)>>) \o SubSeq(WriteFrame(120), 1, k) :
              k \in {2, 5, 8, 10} }
    \cup { StreamHeader \o SubSeq(SubvolFrame(NameA, 1), 1, 12) }

HeadFiles ==
    { StreamFile(fs) : fs \in UNION { [1..n -> HeadFrames] : n \in 0..MaxFrames } }
    \cup DamagedHeadFiles

MiddleFiles ==
    { StreamFile(<<SnapshotFrame(NameB, 2, 1), WriteFrame(121), EndFrame>>),
      StreamFile(<<SnapshotFrame(NameB, 2, 9), WriteFrame(121), EndFrame>>) }

LastFiles ==
    { StreamFile(<<SnapshotFrame(NameC, 3, 2), WriteFrame(122), EndFrame>>),
      StreamFile(<<SnapshotFrame(NameC, 3, 1), WriteFrame(122), EndFrame>>),
      StreamFile(<<SnapshotFrame(NameC, 3, 9), EndFrame>>),
      StreamFile(<<SubvolFrame(NameC, 3), EndFrame>>),
      NoFile }

FileLists ==
    { <<h>> : h \in HeadFiles }
    \cup UNION { { <<h>> \o m \o <<l>> : h \in HeadFiles, m \in [1..n -> MiddleFiles],
                                         l \in LastFiles } : n \in 0..(MaxFiles - 2) }

----------------------------------------------------------------------------
(* The concat tool: main, write_out and the iterator's next *)
FsckIdle ==
    /\ nodes = <<>>
    /\ fpc = "idle"
    /\ root_reachable = {}
    /\ records = <<>>
    /\ changed = FALSE
    /\ reachables_found = 0
    /\ total_scanned = 0
    /\ passes = 0
    /\ out = {}

LoadIdle ==
    /\ dir = <<>>
    /\ lpc = "idle"
    /\ lidx = 0
    /\ repo_nodes = <<>>
    /\ nodes_before = <<>>
    /\ printed = <<>>

ServerIdle ==
    /\ sin = <<>>
    /\ rpos = 0
    /\ sout = <<>>
    /\ spc = "idle"
    /\ fsys = {}
    /\ srepo = <<>>
    /\ txn = <<>>
    /\ events = <<>>

CodecIdle ==
    /\ cjob = <<>>
    /\ cpc = "idle"
    /\ cres = <<>>
    /\ cit = None
    /\ ccalls = <<>>

InitConcat ==
    /\ files \in FileLists
    /\ pc = "main"
    /\ outcome = ""
    /\ stdout_w = <<>>
    /\ paths = <<>>
    /\ current_path = None
    /\ reader = None
    /\ last_snap_cmd = None
    /\ last_reader = None
    /\ curr_uuid = None
    /\ fetched = <<>>
    /\ FsckIdle
    /\ LoadIdle
    /\ ServerIdle
    /\ CodecIdle

ErrName(err) == IF is_eof(err) THEN "ReadError(EndOfFile)" ELSE "ReadError"

\* main: BtrfsCommandConcatIter::new(paths), fail! on Err
MainNew ==
    /\ pc = "main"
    /\ \E r \in {new([i \in 1..Len(files) |-> i])} :
       IF is_ok(r)
       THEN /\ SetSelf(r.val)
            /\ pc' = "write_out"
            /\ outcome' = outcome
       ELSE /\ pc' = "exit"
            /\ outcome' = IF r.tag = "Panic" THEN "panic: new" ELSE "err: open"
            /\ UNCHANGED <<paths, current_path, reader, last_snap_cmd, last_reader, curr_uuid>>
    /\ UNCHANGED <<files, stdout_w, fetched, fsck_vars, load_vars, server_vars, codec_vars>>

\* write_out, line 203: the version-1 header
WriteHeader ==
    /\ pc = "write_out"
    /\ stdout_w' = Append(stdout_w, BtrfsHeader_serialize([version |-> 1]))
    /\ pc' = "iter"
    /\ UNCHANGED <<files, outcome, paths, current_path, reader, last_snap_cmd,
                   last_reader, curr_uuid, fetched, fsck_vars, load_vars, server_vars, codec_vars>>

\* One turn of the loop of next(), with the body of write_out's for loop when
\* next() returns: the frame is written, or the run ends.
IterNext ==
    /\ pc = "iter"
    /\ \E c \in {current_command(Self)} :
       /\ SetSelf(c.self)
       /\ CASE c.tag = "Ok" ->
                 LET emit == ~suppress_command(c.self, c.buf) IN
                 /\ stdout_w' = IF emit THEN Append(stdout_w, c.buf) ELSE stdout_w
                 /\ fetched' = Append(fetched,
                        [src |-> c.src, raw |-> c.raw, buf |-> c.buf,
                         last_set |-> is_some(c.self.last_reader), emitted |-> emit])
                 /\ UNCHANGED <<pc, outcome>>
            [] c.tag = "Err" ->
                 /\ pc' = "exit"
                 /\ outcome' = IF is_some(c.self.current_path)
                               THEN "panic: during read of path"
                               ELSE ErrName(c.err)
                 /\ UNCHANGED <<stdout_w, fetched>>
            [] c.tag = "None" ->
                 /\ pc' = "exit"
                 /\ outcome' = "ok"
                 /\ UNCHANGED <<stdout_w, fetched>>
            [] c.tag = "Panic" ->
                 /\ pc' = "exit"
                 /\ outcome' = IF c.msg = "chain break" THEN "panic: chain break"
                               ELSE "panic: iter"
                 /\ UNCHANGED <<stdout_w, fetched>>
    /\ UNCHANGED <<files, fsck_vars, load_vars, server_vars, codec_vars>>

NextConcat == MainNew \/ WriteHeader \/ IterNext

SpecConcat == InitConcat /\ [][NextConcat]_vars

----------------------------------------------------------------------------
(* Reading the input list as the specification describes it: each file is  *)
(* a header and a sequence of frames.                                      *)
RECURSIVE FramesFrom(_, _)
FramesFrom(bytes, pos) ==
    LET r == BtrfsCommandBuf_read(bytes, pos) IN
    IF ~is_ok(r) THEN <<>> ELSE <<r.val.buf>> \o FramesFrom(bytes, r.val.pos)

HeaderLen == Len(BtrfsHeader_serialize([version |-> 1]))

FramesOf(i) == IF files[i] = NoFile THEN <<>> ELSE FramesFrom(files[i], HeaderLen)

NumFiles == Len(files)
KindOf(frame) == le_value(SubSeq(frame, 5, 6))
IsSubvol(frame) == KindOf(frame) = BTRFS_SEND_C_SUBVOL
IsSnapshot(frame) == KindOf(frame) = BTRFS_SEND_C_SNAPSHOT
IsEnd(frame) == KindOf(frame) = BTRFS_SEND_C_END
IsInner(frame) == ~IsEnd(frame) /\ ~IsSnapshot(frame)

\* A stream file as the send facility writes it: a valid header, a leading
\* frame of the given kind, plain known commands, and one END, the last frame.
WellFormedFile(i, lead_kind) ==
    LET fs == FramesOf(i) IN
    /\ files[i] # NoFile
    /\ is_ok(BtrfsHeader_parse(files[i], 0))
    /\ Len(files[i]) = HeaderLen + Len(Flatten(fs))
    /\ Len(fs) >= 2
    /\ KindOf(fs[1]) = lead_kind
    /\ IsEnd(fs[Len(fs)])
    /\ \A j \in 2..(Len(fs) - 1) :
          /\ KindOf(fs[j]) <= BTRFS_SEND_C_UPDATE_EXTENT
          /\ ~IsSubvol(fs[j]) /\ ~IsSnapshot(fs[j]) /\ ~IsEnd(fs[j])

WellFormedInputs ==
    /\ NumFiles >= 2
    /\ WellFormedFile(1, BTRFS_SEND_C_SUBVOL)
    /\ is_ok(BtrfsSubvol_parse(get_data(FramesOf(1)[1])))
    /\ \A i \in 2..NumFiles :
          /\ WellFormedFile(i, BTRFS_SEND_C_SNAPSHOT)
          /\ is_ok(BtrfsSnapshot_parse(get_data(FramesOf(i)[1])))

\* The uuid introduced by the leading SUBVOL or SNAPSHOT of file i
TrailingUuid(i) ==
    IF i = 1 THEN BtrfsSubvol_parse(get_data(FramesOf(1)[1])).val.uuid
    ELSE BtrfsSnapshot_parse(get_data(FramesOf(i)[1])).val.uuid

CloneUuid(i) == BtrfsSnapshot_parse(get_data(FramesOf(i)[1])).val.clone_uuid

BreakFiles == { i \in 2..NumFiles : CloneUuid(i) # TrailingUuid(i - 1) }
ChainConsistent == BreakFiles = {}
FirstBreak == CHOOSE i \in BreakFiles : \A j \in BreakFiles : i <= j

\* The frames written after the header
OutFrames == SubSeq(stdout_w, 2, Len(stdout_w))
EmittedFrom(i) == { j \in 1..Len(fetched) : fetched[j].emitted /\ fetched[j].src = i }

Count(seq, Pred(_)) == Cardinality({ j \in 1..Len(seq) : Pred(seq[j]) })

RECURSIVE SumInner(_)
SumInner(i) == IF i = 0 THEN 0 ELSE Count(FramesOf(i), IsInner) + SumInner(i - 1)

----------------------------------------------------------------------------
\* C1: chain continuity.  On well-formed inputs whose first chain break is
\* at the leading SNAPSHOT of some file P(i+1), the run ends with the
\* chain-break failure and nothing of that file or a later one is written.
C1_ChainBreakHalts ==
    (WellFormedInputs /\ ~ChainConsistent) =>
        /\ pc = "exit" => outcome = "panic: chain break"
        /\ \A i \in FirstBreak..NumFiles : EmittedFrom(i) = {}

\* C2: on well-formed chain-consistent inputs the run ends successfully with
\* one version-1 header and frames of which exactly one is an END, the last
\* frame written and the END of the final file.
C2_OneHeaderOneEnd ==
    (WellFormedInputs /\ ChainConsistent /\ pc = "exit") =>
        /\ outcome = "ok"
        /\ stdout_w # <<>> /\ stdout_w[1] = StreamHeader
        /\ Count(OutFrames, IsEnd) = 1
        /\ IsEnd(stdout_w[Len(stdout_w)])
        /\ stdout_w[Len(stdout_w)] = FramesOf(NumFiles)[Len(FramesOf(NumFiles))]

\* C3: a clean end of file of the active reader at a frame boundary is not
\* reported as an error: the step opens the next middle path, or promotes
\* the pending last reader (clearing last_reader), or ends the iteration.
AtCleanEof ==
    /\ pc = "iter"
    /\ is_some(reader)
    /\ unwrap(reader).pos = Len(files[unwrap(reader).file])

C3_CleanEofAdvances ==
    [][AtCleanEof =>
          /\ outcome' \notin {"ReadError(EndOfFile)", "panic: during read of path"}
          /\ (paths = <<>> /\ is_some(last_reader)) => last_reader' = None
          /\ (paths = <<>> /\ ~is_some(last_reader)) => (pc' = "exit" /\ outcome' = "ok")
      ]_vars

\* C4: concat renames the root.  At most one SUBVOL frame is written; it
\* carries the name of the leading SNAPSHOT of the final file, the uuid and
\* ctransid of the SUBVOL of the head file, and a stored CRC equal to the CRC
\* recomputed over the rewritten frame; and a run that has read the whole
\* head file (every successful run does) has written exactly one.
HeadSubvols == { j \in 1..Len(FramesOf(1)) : IsSubvol(FramesOf(1)[j]) }
HeadSubvol ==
    BtrfsSubvol_parse(get_data(
        FramesOf(1)[CHOOSE j \in HeadSubvols : \A m \in HeadSubvols : j <= m])).val
AdoptedName == BtrfsSnapshot_parse(get_data(FramesOf(NumFiles)[1])).val.name
HeadConsumed == pc = "exit" /\ outcome \in {"ok", "ReadError(EndOfFile)"}

C5_InnerCountPreserved ==
    (WellFormedInputs /\ ChainConsistent /\ pc = "exit") =>
        /\ outcome = "ok"
        /\ Count(OutFrames, IsInner) = SumInner(NumFiles)

\* C6: suppression.  No SNAPSHOT frame is ever written; an END is written
\* only if last_reader was already cleared when it was fetched, and every
\* END fetched while last_reader was set is dropped.  (The frames written
\* are exactly the fetched frames recorded as emitted, in order.)
EmittedBufs == SelectSeq(fetched, LAMBDA e : e.emitted)

C6_Suppression ==
    /\ \A j \in 1..Len(OutFrames) : ~IsSnapshot(OutFrames[j])
    /\ Len(OutFrames) = Len(EmittedBufs)
    /\ \A j \in 1..Len(OutFrames) : OutFrames[j] = EmittedBufs[j].buf
    /\ \A j \in 1..Len(fetched) :
          /\ IsSnapshot(fetched[j].raw) => ~fetched[j].emitted
          /\ (IsEnd(fetched[j].raw) /\ fetched[j].emitted) => ~fetched[j].last_set
          /\ (IsEnd(fetched[j].raw) /\ fetched[j].last_set) => ~fetched[j].emitted

C6_Witness ==
    /\ \E j \in 1..Len(fetched) : IsSnapshot(fetched[j].raw) /\ ~fetched[j].emitted
    /\ \E j \in 1..Len(fetched) :
          IsEnd(fetched[j].raw) /\ fetched[j].last_set /\ ~fetched[j].emitted
    /\ \E j \in 1..Len(fetched) : fetched[j].emitted

----------------------------------------------------------------------------
(* repository.rs: Repository::find_orphans *)
MaxNodes == 3       \* nodes in the repository
MaxUuid == 2        \* distinct uuids

\* FsckReachabilityRecord::from_node
from_node(node) ==
    IF is_some(node.parent_uuid)
    THEN Some([is_reachable |-> FALSE, uuid |-> node.uuid,
               parent_uuid |-> unwrap(node.parent_uuid)])
    ELSE None

\* A partition that seeds root_reachable with the uuid of every node
partition_all_roots(node_list) ==
    LET incr == SelectSeq(node_list, LAMBDA n : is_some(from_node(n))) IN
    [records |-> [j \in 1..Len(incr) |-> unwrap(from_node(incr[j]))],
     root_reachable |-> { node_list[j].uuid : j \in 1..Len(node_list) }]

\* lines 134-144: Full nodes seed root_reachable, the others become records
RECURSIVE partition(_)
partition(node_list) ==
    IF node_list = <<>> THEN [records |-> <<>>, root_reachable |-> {}]
    ELSE LET init == SubSeq(node_list, 1, Len(node_list) - 1)
             node == node_list[Len(node_list)]
             acc == partition(init)
         IN  IF is_some(from_node(node))
             THEN [acc EXCEPT !.records = Append(@, unwrap(from_node(node)))]
             ELSE [acc EXCEPT !.root_reachable = @ \cup {node.uuid}]

\* A loop body that reaches every record, whatever its parent
scan_record_any_parent(acc, record) ==
    IF record.is_reachable
    THEN [acc EXCEPT !.records = Append(@, record),
                     !.total_scanned = @ + 1,
                     !.reachables_found = @ + 1]
    ELSE [acc EXCEPT !.records = Append(@, [record EXCEPT !.is_reachable = TRUE]),
                     !.root_reachable = @ \cup {record.uuid},
                     !.changed = TRUE,
                     !.total_scanned = @ + 1,
                     !.reachables_found = @ + 1]

\* A loop body that reaches a record without setting its is_reachable flag
scan_record_no_mark(acc, record) ==
    IF record.is_reachable
    THEN [acc EXCEPT !.records = Append(@, record),
                     !.total_scanned = @ + 1,
                     !.reachables_found = @ + 1]
    ELSE IF record.parent_uuid \in acc.root_reachable
    THEN [acc EXCEPT !.records = Append(@, record),
                     !.root_reachable = @ \cup {record.uuid},
                     !.changed = TRUE,
                     !.total_scanned = @ + 1,
                     !.reachables_found = @ + 1]
    ELSE [acc EXCEPT !.records = Append(@, record),
                     !.total_scanned = @ + 1]

\* lines 153-161: the body of the for loop over records
scan_record(acc, record) ==
    IF record.is_reachable
    THEN [acc EXCEPT !.records = Append(@, record),
                     !.total_scanned = @ + 1,
                     !.reachables_found = @ + 1]
    ELSE IF record.parent_uuid \in acc.root_reachable
    THEN [acc EXCEPT !.records = Append(@, [record EXCEPT !.is_reachable = TRUE]),
                     !.root_reachable = @ \cup {record.uuid},
                     !.changed = TRUE,
                     !.total_scanned = @ + 1,
                     !.reachables_found = @ + 1]
    ELSE [acc EXCEPT !.records = Append(@, record),
                     !.total_scanned = @ + 1]

\* lines 148-162: one scan of the records, in list order
RECURSIVE scan(_, _)
scan(recs, rr) ==
    IF recs = <<>>
    THEN [records |-> <<>>, root_reachable |-> rr, changed |-> FALSE,
          reachables_found |-> 0, total_scanned |-> 0]
    ELSE scan_record(scan(SubSeq(recs, 1, Len(recs) - 1), rr), recs[Len(recs)])

\* A rewrite that empties the list once 75% of it is reachable
compact_drop_all(recs, scanned, found) ==
    IF scanned * 3 <= 4 * found
    THEN <<>>
    ELSE recs

\* lines 164-167: rewrite the list if 75% of it is reachable
compact(recs, scanned, found) ==
    IF scanned * 3 <= 4 * found
    THEN SelectSeq(recs, LAMBDA r : ~r.is_reachable)
    ELSE recs

\* A loop that stops after its first pass
loop_continues_never(pass_changed) == FALSE

\* lines 168-170: the loop goes on while a pass changed something
loop_continues(pass_changed) == pass_changed

\* lines 147-171: one pass of the loop
fsck_pass(recs, rr) ==
    LET sc == scan(recs, rr) IN
    [sc EXCEPT !.records = compact(sc.records, sc.total_scanned, sc.reachables_found)]

\* lines 173-177
collect(recs) == { recs[j].uuid : j \in { m \in 1..Len(recs) : ~recs[m].is_reachable } }

\* Repository::find_orphans as a function of the node list
RECURSIVE fsck_loop(_, _, _)
fsck_loop(recs, rr, n) ==
    LET p == fsck_pass(recs, rr) IN
    IF loop_continues(p.changed) THEN fsck_loop(p.records, p.root_reachable, n + 1)
    ELSE [out |-> collect(p.records), passes |-> n + 1]

find_orphans(node_list) ==
    LET pt == partition(node_list) IN fsck_loop(pt.records, pt.root_reachable, 0)

NodeChoices ==
    { [uuid |-> u, parent_uuid |-> None] : u \in 1..MaxUuid }
    \cup { [uuid |-> u, parent_uuid |-> Some(q)] : u \in 1..MaxUuid, q \in 1..MaxUuid }

\* A root, a chain of three incrementals and one orphan: in list order the
\* first pass reaches three of the four records and compaction keeps one.
ChainRepo ==
    << [uuid |-> 1, parent_uuid |-> None], [uuid |-> 2, parent_uuid |-> Some(1)],
       [uuid |-> 3, parent_uuid |-> Some(2)], [uuid |-> 4, parent_uuid |-> Some(3)],
       [uuid |-> 5, parent_uuid |-> Some(9)] >>

\* A root with one child beside two incrementals that name each other
CycleRepo ==
    << [uuid |-> 1, parent_uuid |-> None], [uuid |-> 2, parent_uuid |-> Some(3)],
       [uuid |-> 3, parent_uuid |-> Some(2)], [uuid |-> 4, parent_uuid |-> Some(1)] >>

IndexPermutations(n) == { f \in [1..n -> 1..n] : \A a, b \in 1..n : f[a] = f[b] => a = b }

Orderings(repo) == { [i \in 1..Len(repo) |-> repo[f[i]]] : f \in IndexPermutations(Len(repo)) }

NodeLists ==
    UNION { [1..n -> NodeChoices] : n \in 0..MaxNodes }
    \cup Orderings(ChainRepo) \cup Orderings(CycleRepo)

ConcatIdle ==
    /\ files = <<>>
    /\ pc = "idle"
    /\ outcome = ""
    /\ stdout_w = <<>>
    /\ paths = <<>>
    /\ current_path = None
    /\ reader = None
    /\ last_snap_cmd = None
    /\ last_reader = None
    /\ curr_uuid = None
    /\ fetched = <<>>

InitFsck ==
    /\ ConcatIdle
    /\ LoadIdle
    /\ ServerIdle
    /\ CodecIdle
    /\ nodes \in NodeLists
    /\ fpc = "partition"
    /\ root_reachable = {}
    /\ records = <<>>
    /\ changed = FALSE
    /\ reachables_found = 0
    /\ total_scanned = 0
    /\ passes = 0
    /\ out = {}

FsckPartition ==
    /\ fpc = "partition"
    /\ records' = partition(nodes).records
    /\ root_reachable' = partition(nodes).root_reachable
    /\ fpc' = "loop"
    /\ UNCHANGED <<nodes, changed, reachables_found, total_scanned, passes, out, concat_vars, load_vars, server_vars,
                   codec_vars>>

FsckPass ==
    /\ fpc = "loop"
    /\ LET p == fsck_pass(records, root_reachable) IN
       /\ records' = p.records
       /\ root_reachable' = p.root_reachable
       /\ changed' = p.changed
       /\ reachables_found' = p.reachables_found
       /\ total_scanned' = p.total_scanned
       /\ fpc' = IF loop_continues(p.changed) THEN "loop" ELSE "collect"
    /\ passes' = passes + 1
    /\ UNCHANGED <<nodes, out, concat_vars, load_vars, server_vars, codec_vars>>

FsckCollect ==
    /\ fpc = "collect"
    /\ out' = collect(records)
    /\ fpc' = "done"
    /\ UNCHANGED <<nodes, root_reachable, records, changed, reachables_found,
                   total_scanned, passes, concat_vars, load_vars, server_vars, codec_vars>>

NextFsck == FsckPartition \/ FsckPass \/ FsckCollect

SpecFsck == InitFsck /\ [][NextFsck]_vars

\* find_orphans is straight-line code of one thread: it keeps running
SpecFsckFair == SpecFsck /\ WF_vars(NextFsck)

----------------------------------------------------------------------------
(* The backup graph as the specification describes it: an edge leads from  *)
(* an Incremental node to every node whose uuid is its parent_uuid.        *)
NodeIdx == 1..Len(nodes)
IsFull(i) == nodes[i].parent_uuid = None
IsIncr(i) == nodes[i].parent_uuid # None
Edge(i, j) == IsIncr(i) /\ nodes[j].uuid = unwrap(nodes[i].parent_uuid)

RECURSIVE Closure(_)
Closure(S) ==
    LET T == S \cup { j \in NodeIdx : \E i \in S : Edge(i, j) } IN
    IF T = S THEN S ELSE Closure(T)

Ancestors(i) == Closure({ j \in NodeIdx : Edge(i, j) })
ChainEndsAtFull(i) == \E j \in Ancestors(i) : IsFull(j)
OnCycle(i) == i \in Ancestors(i)
NumIncr == Cardinality({ i \in NodeIdx : IsIncr(i) })

Permuted(f) == [i \in NodeIdx |-> nodes[f[i]]]

\* C7: find_orphans returns exactly the uuids of the Incremental nodes whose
\* parent chain does not end at a Full node of the list.
C7_ExactOrphans ==
    fpc = "done" =>
        /\ \A i \in NodeIdx : IsIncr(i) => (nodes[i].uuid \in out <=> ~ChainEndsAtFull(i))
        /\ out \subseteq { nodes[i].uuid : i \in { m \in NodeIdx : IsIncr(m) } }

\* C8: the uuid of a Full node is never in the set find_orphans returns.
C8_RootNeverOrphan ==
    fpc = "done" => \A i \in NodeIdx : IsFull(i) => nodes[i].uuid \notin out

\* C9: every node on a parent_uuid cycle with no Full node among its
\* ancestors is reported as an orphan, and the loop ends: it never makes
\* more passes than there are Incremental nodes, plus the last one.
C9_CyclesAreOrphans ==
    /\ passes <= NumIncr + 1
    /\ fpc = "done" =>
          \A i \in NodeIdx :
              (OnCycle(i) /\ \A j \in Ancestors(i) : IsIncr(j)) => nodes[i].uuid \in out

C9_Witness ==
    /\ fpc = "done"
    /\ \E i, j \in NodeIdx :
          /\ i # j /\ Edge(i, j) /\ Edge(j, i) /\ nodes[i].uuid # nodes[j].uuid
          /\ \A m \in Ancestors(i) : IsIncr(m)
          /\ {nodes[i].uuid, nodes[j].uuid} \subseteq out
    /\ \E i \in NodeIdx : IsFull(i) /\ nodes[i].uuid \notin out

\* C10: find_orphans returns the same set for every order of the node list.
C10_OrderIndependent ==
    fpc = "done" =>
        \A f \in IndexPermutations(Len(nodes)) : find_orphans(Permuted(f)).out = out

C10_Witness ==
    /\ fpc = "done"
    /\ out # {}
    /\ \E i \in NodeIdx : IsIncr(i) /\ nodes[i].uuid \notin out
    /\ \E f \in IndexPermutations(Len(nodes)) : find_orphans(Permuted(f)).passes # passes

\* The records not yet marked reachable (compaction drops only marked ones)
Unreached == Cardinality({ j \in 1..Len(records) : ~records[j].is_reachable })

----------------------------------------------------------------------------
(* btrfs.rs: BtrfsCommandIter and get_first_command *)
\* BtrfsCommandIter::new: the header is parsed and its version checked
BtrfsCommandIter_new(bytes) ==
    Let(BtrfsHeader_parse(bytes, 0), LAMBDA header :
    IF ~is_ok(header) THEN header
    ELSE IF header.val.version # 1 THEN Err([kind |-> "InvalidVersion", io |-> ""])
    ELSE Ok([pos |-> header.val.pos, is_finished |-> FALSE]))

\* A next() that never records that the END was seen
BtrfsCommandIter_next_unfinished(bytes, it) ==
    IF it.is_finished THEN [tag |-> "None", it |-> it]
    ELSE Let(BtrfsCommand_parse(bytes, it.pos), LAMBDA command :
         IF command.tag = "Panic" THEN Panic(command.msg)
         ELSE IF is_ok(command)
         THEN [tag |-> "Some", cmd |-> command.val,
               it |-> [pos |-> command.val.pos, is_finished |-> FALSE]]
         ELSE Panic("err"))

\* BtrfsCommandIter::next: Some(command), None, or fail! on a parse error
BtrfsCommandIter_next(bytes, it) ==
    IF it.is_finished THEN [tag |-> "None", it |-> it]
    ELSE Let(BtrfsCommand_parse(bytes, it.pos), LAMBDA command :
         IF command.tag = "Panic" THEN Panic(command.msg)
         ELSE IF is_ok(command)
         THEN [tag |-> "Some", cmd |-> command.val,
               it |-> [pos |-> command.val.pos,
                       is_finished |-> command.val.kind = BTRFS_SEND_C_END]]
         ELSE Panic("err"))

get_first_command(bytes) ==
    Let(BtrfsCommandIter_new(bytes), LAMBDA cmd_iter :
    IF ~is_ok(cmd_iter) THEN cmd_iter
    ELSE Let(BtrfsCommandIter_next(bytes, cmd_iter.val), LAMBDA first :
         IF first.tag = "Panic" THEN first
         ELSE IF first.tag = "Some" THEN Ok(first.cmd)
         ELSE Err([kind |-> "ProtocolError", io |-> "No commands"])))

----------------------------------------------------------------------------
(* repository.rs: BackupNode::from_btrfs_command and Repository::load *)
from_btrfs_command(path, command) ==
    IF command.kind = BTRFS_SEND_C_SUBVOL THEN
        Let(BtrfsSubvol_parse(command.data), LAMBDA subvol :
        IF ~is_ok(subvol) THEN Panic("err")
        ELSE Ok([kind |-> "FullBackup", uuid |-> subvol.val.uuid, parent_uuid |-> None,
                 path |-> path, name |-> subvol.val.name]))
    ELSE IF command.kind = BTRFS_SEND_C_SNAPSHOT THEN
        Let(BtrfsSnapshot_parse(command.data), LAMBDA snap :
        IF ~is_ok(snap) THEN Panic("err")
        ELSE Ok([kind |-> "IncrementalBackup", uuid |-> snap.val.uuid,
                 parent_uuid |-> Some(snap.val.clone_uuid),
                 path |-> path, name |-> snap.val.name]))
    ELSE Panic("invalid command")

\* lines 97-110: the body of the for loop over the paths of the directory
load_path(path) ==
    IF dir[path] = NoFile THEN [tag |-> "Skip"]
    ELSE Let(get_first_command(dir[path]), LAMBDA command :
         IF command.tag = "Panic" THEN command
         ELSE IF ~is_ok(command) THEN [tag |-> "Skip"]
         ELSE from_btrfs_command(path, command.val))

\* lines 116-118: the nodes whose uuid find_orphans returned are filtered out
prune(node_list, orphans) == SelectSeq(node_list, LAMBDA n : n.uuid \notin orphans)

----------------------------------------------------------------------------
(* Directories of the load specification *)
MaxDirFiles == 3    \* paths in the repository directory

TruncatedFile == StreamHeader \o SubSeq(SubvolFrame(NameA, 1), 1, 12)
Version2File == BTRFS_HEADER_MAGIC \o write_le(2, 4) \o SubvolFrame(NameA, 1) \o EndFrame
BadMagicFile == <<66>> \o Tail(StreamFile(<<SubvolFrame(NameA, 1), EndFrame>>))
BadPayloadFile == StreamFile(<<GoodFrame(BTRFS_SEND_C_SUBVOL, <<9>>), EndFrame>>)

DirFiles ==
    { NoFile, <<1, 2, 3>>, StreamHeader, TruncatedFile, Version2File, BadMagicFile,
      BadPayloadFile,
      StreamFile(<<WriteFrame(120), EndFrame>>),
      StreamFile(<<UnknownKindFrame, EndFrame>>),
      StreamFile(<<SubvolFrame(NameA, 1), WriteFrame(120), EndFrame>>),
      StreamFile(<<SubvolFrame(NameB, 2), EndFrame>>),
      StreamFile(<<SnapshotFrame(NameB, 2, 1), EndFrame>>),
      StreamFile(<<SnapshotFrame(NameC, 1, 9), EndFrame>>),
      StreamFile(<<SnapshotFrame(NameC, 3, 2), WriteFrame(121), EndFrame>>) }

Directories == UNION { [1..n -> DirFiles] : n \in 0..MaxDirFiles }

InitLoad ==
    /\ ConcatIdle
    /\ FsckIdle
    /\ ServerIdle
    /\ CodecIdle
    /\ dir \in Directories
    /\ lpc = "files"
    /\ lidx = 1
    /\ repo_nodes = <<>>
    /\ nodes_before = <<>>
    /\ printed = <<>>

\* One turn of the for loop of load: the path is skipped, or its node is
\* pushed, or the process fails
LoadFile ==
    /\ lpc = "files"
    /\ lidx <= Len(dir)
    /\ \E r \in {load_path(lidx)} :
          /\ repo_nodes' = IF is_ok(r) THEN Append(repo_nodes, r.val) ELSE repo_nodes
          /\ lpc' = IF r.tag = "Panic" THEN "panic" ELSE lpc
    /\ lidx' = lidx + 1
    /\ UNCHANGED <<dir, nodes_before, printed, concat_vars, fsck_vars, server_vars, codec_vars>>

\* lines 112-122: find_orphans and the filter; load returns Ok(self)
LoadPrune ==
    /\ lpc = "files"
    /\ lidx > Len(dir)
    /\ \E orphans \in {find_orphans(repo_nodes).out} :
          repo_nodes' = prune(repo_nodes, orphans)
    /\ nodes_before' = repo_nodes
    /\ lpc' = "done"
    /\ UNCHANGED <<dir, lidx, printed, concat_vars, fsck_vars, server_vars, codec_vars>>

NextLoad == LoadFile \/ LoadPrune

SpecLoad == InitLoad /\ [][NextLoad]_vars

----------------------------------------------------------------------------
(* The directory and a node list as the specification describes them *)
DirIdx == 1..Len(dir)
DirFrames(i) == IF dir[i] = NoFile THEN <<>> ELSE FramesFrom(dir[i], HeaderLen)

\* The file cannot be opened, its header is invalid, or no whole frame of a
\* known kind follows the header
Unreadable(i) ==
    \/ dir[i] = NoFile
    \/ ~is_ok(BtrfsHeader_parse(dir[i], 0))
    \/ BtrfsHeader_parse(dir[i], 0).val.version # 1
    \/ DirFrames(i) = <<>>
    \/ KindOf(DirFrames(i)[1]) > BTRFS_SEND_C_UPDATE_EXTENT

FirstFrame(i) == DirFrames(i)[1]
DecodesAsSubvol(i) ==
    IsSubvol(FirstFrame(i)) /\ is_ok(BtrfsSubvol_parse(get_data(FirstFrame(i))))
DecodesAsSnapshot(i) ==
    IsSnapshot(FirstFrame(i)) /\ is_ok(BtrfsSnapshot_parse(get_data(FirstFrame(i))))

NodesOfPath(list, i) == { j \in 1..Len(list) : list[j].path = i }

EdgeIn(list, i, j) ==
    list[i].parent_uuid # None /\ list[j].uuid = unwrap(list[i].parent_uuid)

RECURSIVE ClosureIn(_, _)
ClosureIn(list, S) ==
    LET T == S \cup { j \in 1..Len(list) : \E i \in S : EdgeIn(list, i, j) } IN
    IF T = S THEN S ELSE ClosureIn(list, T)

\* Node i is a Full node or its parent chain ends at a Full node of the list
ReachesFullIn(list, i) == \E j \in ClosureIn(list, {i}) : list[j].parent_uuid = None

ParentClosed(list) ==
    \A i \in 1..Len(list) : list[i].parent_uuid # None =>
        \E j \in 1..Len(list) : list[j].uuid = unwrap(list[i].parent_uuid)

DistinctUuids(list) ==
    \A i, j \in 1..Len(list) : list[i].uuid = list[j].uuid => i = j

\* C12: in the list a pruning load returns no node is an orphan and every
\* Incremental node has its parent in the list, for every directory.
C12_PrunedListClosed ==
    lpc = "done" =>
        /\ \A i \in 1..Len(repo_nodes) : ReachesFullIn(repo_nodes, i)
        /\ ParentClosed(repo_nodes)

\* C13: load never fails because of a single file: an unreadable file is
\* skipped, contributes no node, and the load goes on and returns.
C13_LoadNeverFails ==
    /\ lpc # "panic"
    /\ lpc = "done" => \A i \in DirIdx : Unreadable(i) => NodesOfPath(nodes_before, i) = {}

\* C14: a file whose first command is SUBVOL yields a Full node without
\* parent, one whose first command is SNAPSHOT an Incremental node with
\* parent_uuid = Some(clone_uuid); a file whose first command is of another
\* kind, or does not decode, is skipped and the load does not abort on it.
C14_Classification ==
    /\ lpc = "panic" =>
          \/ Unreadable(lidx - 1)
          \/ DecodesAsSubvol(lidx - 1)
          \/ DecodesAsSnapshot(lidx - 1)
    /\ lpc = "done" => \A i \in DirIdx :
          IF Unreadable(i) THEN TRUE
          ELSE IF DecodesAsSubvol(i) THEN
              \E j \in NodesOfPath(nodes_before, i) :
                  /\ NodesOfPath(nodes_before, i) = {j}
                  /\ nodes_before[j].kind = "FullBackup"
                  /\ nodes_before[j].parent_uuid = None
                  /\ nodes_before[j].uuid =
                         BtrfsSubvol_parse(get_data(FirstFrame(i))).val.uuid
          ELSE IF DecodesAsSnapshot(i) THEN
              \E j \in NodesOfPath(nodes_before, i) :
                  /\ NodesOfPath(nodes_before, i) = {j}
                  /\ nodes_before[j].kind = "IncrementalBackup"
                  /\ nodes_before[j].parent_uuid =
                         Some(BtrfsSnapshot_parse(get_data(FirstFrame(i))).val.clone_uuid)
                  /\ nodes_before[j].uuid =
                         BtrfsSnapshot_parse(get_data(FirstFrame(i))).val.uuid
          ELSE NodesOfPath(nodes_before, i) = {}

\* C15: after load each uuid appears at most once in the node list.
C15_UuidsDistinct ==
    lpc = "done" => DistinctUuids(repo_nodes)

----------------------------------------------------------------------------
(* protocol.rs: ProtocolServer.  Writes to stderr are taken to succeed;    *)
(* every write to the client, every read and every file operation can fail. *)
MAGIC_REQUEST == <<168, 91, 75, 43, 27, 117, 76, 10>>
MAGIC_RESPONSE == <<251, 112, 76, 99, 65, 29, 156, 10>>

\* enum ProtocolCommand
Quit == 0
FindNodes == 1
ListNodes == 2
UploadArchive == 3
GetGraph == 4

\* Big-endian integers: read_be_u32, read_be_u64 and write_be_u32
RECURSIVE be_value(_)
be_value(bytes) ==
    IF bytes = <<>> THEN 0
    ELSE 256 * be_value(SubSeq(bytes, 1, Len(bytes) - 1)) + bytes[Len(bytes)]

RECURSIVE write_be(_, _)
write_be(n, width) ==
    IF width = 0 THEN <<>> ELSE write_be(n \div 256, width - 1) \o <<n % 256>>

read_be_u32(bytes, pos) ==
    IF pos + 4 > Len(bytes) THEN Err("EndOfFile")
    ELSE Ok([v |-> be_value(SubSeq(bytes, pos + 1, pos + 4)), pos |-> pos + 4])

\* A value of 2^24 or more is read as 2^24: only 0..4 are told apart
read_be_u64(bytes, pos) ==
    IF pos + 8 > Len(bytes) THEN Err("EndOfFile")
    ELSE Ok([v |-> IF SubSeq(bytes, pos + 1, pos + 5) = <<0, 0, 0, 0, 0>>
                   THEN be_value(SubSeq(bytes, pos + 6, pos + 8))
                   ELSE 256 * 256 * 256,
             pos |-> pos + 8])

\* A conversion that wraps the opcode into the defined range
from_u64_wrapping(n) == Some(n % (GetGraph + 1))

\* FromPrimitive::from_u64 for ProtocolCommand
from_u64(n) == IF n <= GetGraph THEN Some(n) ELSE None

\* A read_magic that accepts any eight bytes
read_magic_any(bytes, pos) ==
    Let(read_exact(bytes, pos, Len(MAGIC_REQUEST)), LAMBDA magic :
    IF ~is_ok(magic) THEN magic
    ELSE Ok([v |-> TRUE, pos |-> magic.val.pos]))

\* ProtocolServer::read_magic
read_magic(bytes, pos) ==
    Let(read_exact(bytes, pos, Len(MAGIC_REQUEST)), LAMBDA magic :
    IF ~is_ok(magic) THEN magic
    ELSE Ok([v |-> magic.val.v = MAGIC_REQUEST, pos |-> magic.val.pos]))

\* ProtocolServer::read_parent_list (list_size stays below 2^27 here)
read_parent_list(bytes, pos) ==
    Let(read_be_u32(bytes, pos), LAMBDA list_size :
    IF ~is_ok(list_size) THEN list_size
    ELSE Let(read_exact(bytes, list_size.val.pos, 16 * list_size.val.v), LAMBDA list_data :
    IF ~is_ok(list_data) THEN list_data
    ELSE Ok([v |-> [i \in 1..list_size.val.v |->
                       SubSeq(list_data.val.v, 16 * (i - 1) + 1, 16 * i)],
             pos |-> list_data.val.pos])))

\* The calls on the writer made for a list of uuids: write_u8(1), write(uuid)
RECURSIVE record_writes(_)
record_writes(uuids) ==
    IF uuids = <<>> THEN <<>>
    ELSE <<<<1>>, Head(uuids)>> \o record_writes(Tail(uuids))

\* The orders in which a HashSet can be iterated
SetOrders(S) ==
    { f \in [1..Cardinality(S) -> S] :
        \A a, b \in 1..Cardinality(S) : f[a] = f[b] => a = b }

\* A candidate set that answers every requested uuid
candidates_all_wanted(want_parents, have_parents) == want_parents

\* dispatch_find_nodes, line 114: want_parents.intersection(&have_parents)
candidates(want_parents, have_parents) == want_parents \cap have_parents

\* dispatch_find_nodes, lines 106-119: the calls on the writer for one
\* iteration order; the last one is the flush
find_nodes_writes(want_list, repo, order) ==
    record_writes(order) \o <<<<0>>, <<>>>>

find_nodes_orders(want_list, repo) ==
    SetOrders(candidates({ want_list[i] : i \in 1..Len(want_list) },
                         { repo[i].uuid : i \in 1..Len(repo) }))

\* dispatch_list_nodes, lines 130-137
list_nodes_writes(repo) ==
    record_writes([i \in 1..Len(repo) |-> repo[i].uuid]) \o <<<<0>>, <<>>>>

\* json::encode(&graph): one edge per node, from_node then to_node
RECURSIVE json_encode(_)
json_encode(repo) ==
    IF repo = <<>> THEN <<>>
    ELSE (IF is_some(Head(repo).parent_uuid) THEN unwrap(Head(repo).parent_uuid) ELSE <<0>>)
             \o Head(repo).uuid \o json_encode(Tail(repo))

\* dispatch_get_graph, lines 233-235
get_graph_writes(repo) ==
    <<write_be(Len(json_encode(repo)), 4), json_encode(repo), <<>>>>

\* The bytes that reach the client when the first k calls succeed
written(writes, k) == Flatten(SubSeq(writes, 1, k))

\* An upload that commits whatever copy_out returned
after_copy_always_commit(result) == "rename"

\* dispatch_upload_archive, lines 159-177: the match on the result of copy_out
after_copy(result) == IF result = "Ok" THEN "rename" ELSE "rollback"

\* reliable_rw::copy_out returns Ok or one of its four errors
CopyResults == {"Ok", "IntegrityError", "ProtocolError", "ReadError", "WriteError"}

\* Uuid::new_v4(): the object ids of a session are fresh
ObjectUuid(id) == [i \in 1..16 |-> 100 + id]
NextObject == 1 + Cardinality({ i \in 1..Len(events) : events[i].e = "create" })

NoTxn == [cmd |-> -1, step |-> "none", object |-> 0, wrote |-> <<>>]

\* One entry of the session history: what was read, dispatched, done to a
\* file or written, with the opcode or command, the object and the bytes
Event(e, op, object, bytes, list, ok) ==
    [e |-> e, op |-> op, object |-> object, bytes |-> bytes, list |-> list, ok |-> ok]

TmpFile(id, complete) == [object |-> id, tmp |-> TRUE, complete |-> complete]
FinalFile(id, complete) == [object |-> id, tmp |-> FALSE, complete |-> complete]

----------------------------------------------------------------------------
(* The sessions explored: a handshake, then up to MaxRequests requests,    *)
(* over a few repositories.                                                *)
MaxRequests == 2

ServerNode(u, parent) == [uuid |-> Uuid(u), parent_uuid |-> parent]

ServerRepos ==
    { <<>>,
      <<ServerNode(1, None)>>,
      <<ServerNode(1, None), ServerNode(2, Some(Uuid(1)))>>,
      <<ServerNode(1, None), ServerNode(1, None)>> }

ParentLists ==
    { <<>>, <<Uuid(1)>>, <<Uuid(1), Uuid(1)>>, <<Uuid(3), Uuid(1)>>, <<Uuid(2), Uuid(1)>> }

Archive == <<5, 6>>

opcode(n) == write_be(n, 8)

FindRequest(list) == opcode(FindNodes) \o write_be(Len(list), 4) \o Flatten(list)

Requests ==
    { opcode(Quit), opcode(ListNodes), opcode(UploadArchive) \o Archive,
      opcode(GetGraph), opcode(7), <<0, 0, 0>>, <<1, 0, 0, 0, 0, 0, 0, 0>>,
      opcode(FindNodes) \o write_be(2, 4) \o Uuid(1) }
    \cup { FindRequest(list) : list \in ParentLists }

RequestSeqs == UNION { [1..n -> Requests] : n \in 0..MaxRequests }

Handshakes == { MAGIC_REQUEST, MAGIC_RESPONSE, <<168, 91, 75>>, <<>> }

ServerInputs == { h \o Flatten(rs) : h \in Handshakes, rs \in RequestSeqs }

InitServer ==
    /\ ConcatIdle /\ FsckIdle /\ LoadIdle /\ CodecIdle
    /\ sin \in ServerInputs
    /\ srepo \in ServerRepos
    /\ rpos = 0
    /\ sout = <<>>
    /\ spc = "magic"
    /\ fsys = {}
    /\ txn = NoTxn
    /\ events = <<>>

\* run, lines 250-257
ServerMagic ==
    /\ spc = "magic"
    /\ \E is_valid \in {read_magic(sin, rpos)} :
         IF ~is_ok(is_valid)
         THEN /\ rpos' = Len(sin)
              /\ sout' = sout
              /\ spc' = "failed"
              /\ events' = Append(events,
                     Event("read_magic", 0, 0, SubSeq(sin, rpos + 1, Len(sin)), <<>>, FALSE))
         ELSE IF ~is_valid.val.v
         THEN /\ rpos' = is_valid.val.pos
              /\ sout' = sout
              /\ spc' = "end"
              /\ events' = Append(events,
                     Event("read_magic", 0, 0, SubSeq(sin, rpos + 1, is_valid.val.pos), <<>>, FALSE))
         ELSE \E k \in 0..1 :
              /\ rpos' = is_valid.val.pos
              /\ sout' = sout \o written(<<MAGIC_RESPONSE>>, k)
              /\ spc' = IF k = 1 THEN "opcode" ELSE "failed"
              /\ events' = events \o
                     << Event("read_magic", 0, 0, SubSeq(sin, rpos + 1, is_valid.val.pos), <<>>, TRUE),
                        Event("write_magic", 0, 0, written(<<MAGIC_RESPONSE>>, k), <<>>, k = 1) >>
    /\ UNCHANGED <<sin, fsys, srepo, txn, concat_vars, fsck_vars, load_vars, codec_vars>>

\* run, lines 260-273: one opcode is read and matched
ServerReadOpcode ==
    /\ spc = "opcode"
    /\ \E n \in {read_be_u64(sin, rpos)} :
         IF ~is_ok(n)
         THEN /\ rpos' = Len(sin)
              /\ spc' = "failed"
              /\ txn' = txn
              /\ events' = Append(events,
                     Event("opcode", -1, 0, SubSeq(sin, rpos + 1, Len(sin)), <<>>, FALSE))
         ELSE \E op_code \in {from_u64(n.val.v)} :
              /\ rpos' = n.val.pos
              /\ events' = Append(events,
                     Event("opcode", n.val.v, 0, SubSeq(sin, rpos + 1, n.val.pos), <<>>, is_some(op_code)))
              /\ IF op_code = Some(Quit) THEN spc' = "end" /\ txn' = txn
                 ELSE IF is_some(op_code)
                 THEN /\ spc' = "dispatch"
                      /\ txn' = [NoTxn EXCEPT !.cmd = unwrap(op_code), !.step = "start"]
                 ELSE spc' = "end" /\ txn' = txn
    /\ UNCHANGED <<sin, sout, fsys, srepo, concat_vars, fsck_vars, load_vars, codec_vars>>

\* A dispatch that only replies: the first k calls on the writer succeed
Reply(cmd, list, writes, pos) ==
    \E k \in 0..Len(writes) :
        /\ rpos' = pos
        /\ sout' = sout \o written(writes, k)
        /\ spc' = IF k = Len(writes) THEN "opcode" ELSE "failed"
        /\ txn' = NoTxn
        /\ events' = events \o
               << Event("dispatch", cmd, 0, <<>>, list, TRUE),
                  Event("return", cmd, 0, written(writes, k), list, k = Len(writes)) >>

\* dispatch, line 242, and dispatch_find_nodes
DispatchFindNodes ==
    /\ spc = "dispatch" /\ txn.cmd = FindNodes
    /\ \E want \in {read_parent_list(sin, rpos)} :
         IF ~is_ok(want)
         THEN /\ rpos' = Len(sin)
              /\ sout' = sout
              /\ spc' = "failed"
              /\ txn' = NoTxn
              /\ events' = events \o
                     << Event("dispatch", FindNodes, 0, <<>>, <<>>, TRUE),
                        Event("return", FindNodes, 0, <<>>, <<>>, FALSE) >>
         ELSE \E order \in find_nodes_orders(want.val.v, srepo) :
                Reply(FindNodes, want.val.v,
                      find_nodes_writes(want.val.v, srepo, order), want.val.pos)
    /\ UNCHANGED <<sin, fsys, srepo, concat_vars, fsck_vars, load_vars, codec_vars>>

\* dispatch, line 243, and dispatch_list_nodes
DispatchListNodes ==
    /\ spc = "dispatch" /\ txn.cmd = ListNodes
    /\ Reply(ListNodes, <<>>, list_nodes_writes(srepo), rpos)
    /\ UNCHANGED <<sin, fsys, srepo, concat_vars, fsck_vars, load_vars, codec_vars>>

\* dispatch, line 245, and dispatch_get_graph
DispatchGetGraph ==
    /\ spc = "dispatch" /\ txn.cmd = GetGraph
    /\ Reply(GetGraph, <<>>, get_graph_writes(srepo), rpos)
    /\ UNCHANGED <<sin, fsys, srepo, concat_vars, fsck_vars, load_vars, codec_vars>>

\* The transaction ends: dispatch_upload_archive returns
UploadReturn(id, wrote, ok) == Event("return", UploadArchive, id, wrote, <<>>, ok)

\* dispatch_upload_archive, lines 142-157: a fresh object id, File::create
UploadCreate ==
    /\ spc = "dispatch" /\ txn.cmd = UploadArchive /\ txn.step = "start"
    /\ \E object_id \in {NextObject}, created \in BOOLEAN :
         IF created
         THEN /\ fsys' = fsys \cup {TmpFile(object_id, FALSE)}
              /\ txn' = [txn EXCEPT !.step = "copy", !.object = object_id]
              /\ spc' = spc
              /\ events' = events \o
                     << Event("dispatch", UploadArchive, object_id, <<>>, <<>>, TRUE),
                        Event("create", UploadArchive, object_id, <<>>, <<>>, TRUE) >>
         ELSE /\ fsys' = fsys
              /\ txn' = NoTxn
              /\ spc' = "failed"
              /\ events' = events \o
                     << Event("dispatch", UploadArchive, object_id, <<>>, <<>>, TRUE),
                        Event("create", UploadArchive, object_id, <<>>, <<>>, FALSE),
                        UploadReturn(object_id, <<>>, FALSE) >>
    /\ UNCHANGED <<sin, rpos, sout, srepo, concat_vars, fsck_vars, load_vars, codec_vars>>

\* dispatch_upload_archive, lines 159-177: copy_out reads some of the input
\* and leaves the whole archive in the file only when it returns Ok
UploadCopy ==
    /\ spc = "dispatch" /\ txn.cmd = UploadArchive /\ txn.step = "copy"
    /\ \E result \in CopyResults, n \in 0..Len(Archive) :
         /\ rpos + n <= Len(sin)
         /\ rpos' = rpos + n
         /\ fsys' = (fsys \ {TmpFile(txn.object, FALSE)})
                        \cup {TmpFile(txn.object, result = "Ok")}
         /\ txn' = [txn EXCEPT !.step = after_copy(result)]
         /\ events' = Append(events,
                Event("copy", UploadArchive, txn.object, SubSeq(sin, rpos + 1, rpos + n),
                      <<>>, result = "Ok"))
    /\ UNCHANGED <<sin, sout, spc, srepo, concat_vars, fsck_vars, load_vars, codec_vars>>

\* dispatch_upload_archive, line 183: rename(&tmp_path, &final_path)
UploadRename ==
    /\ spc = "dispatch" /\ txn.cmd = UploadArchive /\ txn.step = "rename"
    /\ \E renamed \in BOOLEAN, tmp \in { f \in fsys : f.object = txn.object /\ f.tmp } :
         IF renamed
         THEN /\ fsys' = (fsys \ {tmp}) \cup {FinalFile(txn.object, tmp.complete)}
              /\ txn' = [txn EXCEPT !.step = "reply"]
              /\ spc' = spc
              /\ events' = Append(events,
                     Event("rename", UploadArchive, txn.object, <<>>, <<>>, TRUE))
         ELSE /\ fsys' = fsys
              /\ txn' = NoTxn
              /\ spc' = "failed"
              /\ events' = events \o
                     << Event("rename", UploadArchive, txn.object, <<>>, <<>>, FALSE),
                        UploadReturn(txn.object, <<>>, FALSE) >>
    /\ UNCHANGED <<sin, rpos, sout, srepo, concat_vars, fsck_vars, load_vars, codec_vars>>

\* An upload that adds the stored object to the repository of the session
UploadReply_adds_node ==
    /\ spc = "dispatch" /\ txn.cmd = UploadArchive /\ txn.step = "reply"
    /\ \E writes \in {<<<<1>>, ObjectUuid(txn.object), <<>>>>} :
       \E k \in 0..Len(writes) :
         /\ sout' = sout \o written(writes, k)
         /\ spc' = IF k = Len(writes) THEN "opcode" ELSE "failed"
         /\ txn' = NoTxn
         /\ events' = Append(events, UploadReturn(txn.object, written(writes, k), k = Len(writes)))
    /\ srepo' = Append(srepo, [uuid |-> ObjectUuid(txn.object), parent_uuid |-> None])
    /\ UNCHANGED <<sin, rpos, fsys, concat_vars, fsck_vars, load_vars, codec_vars>>

\* dispatch_upload_archive, lines 184-187: 01, the object id, flush
UploadReply ==
    /\ spc = "dispatch" /\ txn.cmd = UploadArchive /\ txn.step = "reply"
    /\ \E writes \in {<<<<1>>, ObjectUuid(txn.object), <<>>>>} :
       \E k \in 0..Len(writes) :
         /\ sout' = sout \o written(writes, k)
         /\ spc' = IF k = Len(writes) THEN "opcode" ELSE "failed"
         /\ txn' = NoTxn
         /\ events' = Append(events, UploadReturn(txn.object, written(writes, k), k = Len(writes)))
    /\ UNCHANGED <<sin, rpos, fsys, srepo, concat_vars, fsck_vars, load_vars, codec_vars>>

\* dispatch_upload_archive, lines 194-197: 00, unlink, flush, Err(err);
\* the unlink is reached only when the write succeeded
UploadRollback ==
    /\ spc = "dispatch" /\ txn.cmd = UploadArchive /\ txn.step = "rollback"
    /\ \E wrote \in BOOLEAN, unlinked \in BOOLEAN :
         /\ sout' = sout \o written(<<<<0>>>>, IF wrote THEN 1 ELSE 0)
         /\ fsys' = IF wrote /\ unlinked
                    THEN { f \in fsys : ~(f.object = txn.object /\ f.tmp) }
                    ELSE fsys
         /\ spc' = "failed"
         /\ txn' = NoTxn
         /\ events' = events \o
                << Event("unlink", UploadArchive, txn.object, <<>>, <<>>, wrote /\ unlinked),
                   UploadReturn(txn.object, written(<<<<0>>>>, IF wrote THEN 1 ELSE 0), FALSE) >>
    /\ UNCHANGED <<sin, rpos, srepo, concat_vars, fsck_vars, load_vars, codec_vars>>

NextServer ==
    \/ ServerMagic
    \/ ServerReadOpcode
    \/ DispatchFindNodes
    \/ DispatchListNodes
    \/ DispatchGetGraph
    \/ UploadCreate
    \/ UploadCopy
    \/ UploadRename
    \/ UploadReply
    \/ UploadRollback

SpecServer == InitServer /\ [][NextServer]_vars

----------------------------------------------------------------------------
(* Claims about the protocol server.                                       *)
Returns(e) == { i \in 1..Len(events) : events[i].e = "return" /\ events[i].op = UploadArchive }

\* The reply 01 + U of an upload
CommitReply(id) == <<1>> \o ObjectUuid(id)

\* C16: <root>/<U> comes into existence only by the rename of a complete
\* <root>/<U>.tmp after copy_out returned Ok, and a byte of the reply
\* 01 + U is written only when <root>/<U> exists and <root>/<U>.tmp does
\* not; <root>/<U> never holds a partially copied archive.
C16_CommitOrdering ==
    /\ [][ \A f \in fsys' \ fsys :
             ~f.tmp =>
                /\ txn.cmd = UploadArchive /\ txn.step = "rename" /\ txn.object = f.object
                /\ TmpFile(f.object, TRUE) \in fsys
                /\ TmpFile(f.object, TRUE) \notin fsys'
                /\ \E i \in 1..Len(events) :
                       events[i].e = "copy" /\ events[i].object = f.object /\ events[i].ok
           ]_vars
    /\ [][ \A i \in Returns(events') \ Returns(events) :
             (events'[i].bytes # <<>> /\ Head(events'[i].bytes) = 1) =>
                /\ FinalFile(events'[i].object, TRUE) \in fsys
                /\ \A f \in fsys : ~(f.tmp /\ f.object = events'[i].object)
                /\ events[Len(events)] = Event("rename", UploadArchive, events'[i].object, <<>>, <<>>, TRUE)
           ]_vars
    /\ [](\A i \in Returns(events) :
             events[i].bytes = CommitReply(events[i].object) =>
                /\ FinalFile(events[i].object, TRUE) \in fsys
                /\ \A f \in fsys : ~(f.tmp /\ f.object = events[i].object))
    /\ [](\A f \in fsys : ~f.tmp => f.complete)

\* An upload was committed and answered with 01 + U
C16_Witness ==
    \E i \in Returns(events) :
        /\ events[i].ok
        /\ events[i].bytes = CommitReply(events[i].object)
        /\ FinalFile(events[i].object, TRUE) \in fsys

\* C17: when an upload transaction ends in failure, <root>/<U>.tmp does
\* not exist, <root>/<U> does not exist, and the only response written to
\* the client for that request is a single 00 byte.
C17_Rollback ==
    \A i \in Returns(events) :
        ~events[i].ok =>
            /\ \A f \in fsys : f.object # events[i].object
            /\ events[i].bytes = <<0>>

\* The session starts with eight bytes equal to the request magic
MagicSent == Len(sin) >= Len(MAGIC_REQUEST) /\ SubSeq(sin, 1, Len(MAGIC_REQUEST)) = MAGIC_REQUEST

\* C18: the response magic is written only after eight bytes equal to the
\* request magic have been read, and no opcode is read before that; when
\* the first eight bytes differ from the request magic (or are missing)
\* the server writes no byte, reads no opcode, dispatches no command and
\* ends the session.
C18_Handshake ==
    /\ [][ (sout = <<>> /\ sout' # <<>>) =>
             /\ spc = "magic"
             /\ rpos = 0 /\ rpos' = Len(MAGIC_REQUEST)
             /\ SubSeq(sin, 1, rpos') = MAGIC_REQUEST
             /\ sout' = MAGIC_RESPONSE
           ]_vars
    /\ [](\A i \in 1..Len(events) :
             events[i].e # "read_magic" =>
                events[1] = Event("read_magic", 0, 0, MAGIC_REQUEST, <<>>, TRUE))
    /\ [](\A i \in 1..Len(events) :
             events[i].e \notin {"read_magic", "write_magic"} =>
                /\ i > 2
                /\ events[2] = Event("write_magic", 0, 0, MAGIC_RESPONSE, <<>>, TRUE)
                /\ SubSeq(sout, 1, Len(MAGIC_RESPONSE)) = MAGIC_RESPONSE)
    /\ [](~MagicSent =>
             /\ sout = <<>>
             /\ fsys = {}
             /\ spc \in {"magic", "end", "failed"}
             /\ \A i \in 1..Len(events) : events[i].e = "read_magic" /\ ~events[i].ok /\ i = 1
             /\ rpos <= Len(MAGIC_REQUEST))
    /\ [][ (spc = "magic" /\ ~MagicSent) => spc' \in {"end", "failed"} ]_vars

\* The handshake succeeded and a command was dispatched after it
C18_Witness ==
    /\ MagicSent
    /\ Len(sout) >= Len(MAGIC_RESPONSE)
    /\ SubSeq(sout, 1, Len(MAGIC_RESPONSE)) = MAGIC_RESPONSE
    /\ \E i \in 1..Len(events) : events[i].e = "dispatch"

Opcodes == { i \in 1..Len(events) : events[i].e = "opcode" /\ events[i].op >= 0 }
Dispatches(from, to) == { k \in (from + 1)..(to - 1) : events[k].e = "dispatch" }

\* C19: after opcode 0 or an opcode outside 0..4 has been read nothing more
\* is written, read or dispatched and the session is over; every opcode in
\* 1..4 is followed by exactly one dispatch, of that command, before the
\* next opcode is read.
C19_Termination ==
    /\ [](\A i \in Opcodes :
             (events[i].op = Quit \/ events[i].op \notin Quit..GetGraph) =>
                /\ i = Len(events)
                /\ spc = "end"
                /\ txn = NoTxn)
    /\ [][ (spc = "opcode" /\ Len(events') > Len(events)
               /\ events'[Len(events) + 1].e = "opcode"
               /\ events'[Len(events) + 1].op \notin FindNodes..GetGraph) =>
                /\ sout' = sout /\ fsys' = fsys
                /\ rpos' <= rpos + 8
                /\ spc' \in {"end", "failed"} ]_vars
    /\ [][ (spc = "end" \/ spc = "failed") =>
             (sout' = sout /\ rpos' = rpos /\ events' = events /\ fsys' = fsys /\ spc' = spc)
           ]_vars
    /\ [](\A i \in Opcodes : \A j \in Opcodes \cup {Len(events) + 1} :
             (events[i].op \in FindNodes..GetGraph /\ i < j
                  /\ (j <= Len(events) \/ spc # "dispatch" \/ txn.step # "start")
                  /\ \A m \in Opcodes : ~(i < m /\ m < j)) =>
                /\ Cardinality(Dispatches(i, j)) = 1
                /\ events[i + 1].e = "dispatch" /\ events[i + 1].op = events[i].op)
    /\ [](\A k \in 1..Len(events) :
             events[k].e = "dispatch" =>
                /\ k > 1 /\ events[k - 1].e = "opcode"
                /\ events[k - 1].op = events[k].op
                /\ events[k].op \in FindNodes..GetGraph)

\* A command was dispatched, the next opcode was read, and then an opcode
\* that is Quit or undefined ended the session
C19_Witness ==
    /\ spc = "end"
    /\ \E i, j \in Opcodes :
          /\ i < j /\ j = Len(events)
          /\ events[i].op \in FindNodes..GetGraph
          /\ events[j].op \notin FindNodes..GetGraph
          /\ rpos < Len(sin)

FindReturns == { i \in 1..Len(events) : events[i].e = "return" /\ events[i].op = FindNodes }

\* The distinct uuids of a request list that are the uuid of a repository node
Common(list) ==
    { u \in { list[a] : a \in 1..Len(list) } : \E b \in 1..Len(srepo) : srepo[b].uuid = u }

\* The k-th 17-byte record of a response, counted from 0
RecordAt(bytes, k) == SubSeq(bytes, 17 * k + 2, 17 * k + 17)
CompleteRecords(bytes) == { k \in 0..Len(bytes) : 17 * k + 17 <= Len(bytes) }

\* C20: a FindNodes dispatch that returns Ok has written, for each distinct
\* uuid that is both in the request list and the uuid of a repository node,
\* exactly one record 01 + uuid, no other record, and then exactly one 00;
\* a dispatch cut short by a failed write has written a prefix of it.
C20_FindNodesResponse ==
    \A i \in FindReturns :
        LET bytes == events[i].bytes
            common == Common(events[i].list)
        IN  /\ \A k \in CompleteRecords(bytes) :
                  /\ bytes[17 * k + 1] = 1
                  /\ RecordAt(bytes, k) \in common
                  /\ \A m \in CompleteRecords(bytes) :
                         RecordAt(bytes, m) = RecordAt(bytes, k) => m = k
            /\ Len(bytes) <= 17 * Cardinality(common) + 1
            /\ events[i].ok => Len(bytes) = 17 * Cardinality(common) + 1
            /\ Len(bytes) = 17 * Cardinality(common) + 1 =>
                  /\ bytes[Len(bytes)] = 0
                  /\ \A u \in common :
                         Cardinality({ k \in CompleteRecords(bytes) : RecordAt(bytes, k) = u }) = 1
            /\ Len(bytes) < 17 * Cardinality(common) + 1 =>
                  /\ Len(bytes) % 17 \in {0, 1}
                  /\ Len(bytes) % 17 = 1 => bytes[Len(bytes)] = 1
            /\ SubSeq(sout, Len(sout) - Len(bytes) + 1, Len(sout)) = bytes \/ i < Len(events)

\* A request list with a repeated uuid held by the repository was answered
C20_Witness ==
    \E i \in FindReturns :
        /\ events[i].ok
        /\ Len(events[i].list) = 2
        /\ events[i].list[1] = events[i].list[2]
        /\ Len(events[i].bytes) = 18

----------------------------------------------------------------------------
(* Calls on the codec of btrfs.rs: a caller that builds a BtrfsCommandIter *)
(* over a byte source and keeps calling next(), and callers of the parse   *)
(* and serialize functions.                                                *)
MaxIterFrames == 3  \* frames in the byte source of an iterator
MaxCalls == 5       \* calls to next() made by the caller


IterFrames == { SubvolFrame(NameA, 1), WriteFrame(120), EndFrame, BadCrcFrame }

HeaderInputs ==
    { StreamHeader,
      BTRFS_HEADER_MAGIC \o write_le(2, 4),
      BTRFS_HEADER_MAGIC \o write_le(0, 4),
      BTRFS_HEADER_MAGIC \o write_le(257, 4),
      <<66>> \o Tail(StreamHeader),
      SubSeq(StreamHeader, 1, 12) \o <<1>> \o write_le(1, 4),
      BTRFS_HEADER_MAGIC,
      BTRFS_HEADER_MAGIC \o <<1, 0>>,
      <<98, 116>>,
      <<>> }

IterSources ==
    { StreamFile(fs) : fs \in UNION { [1..n -> IterFrames] : n \in 0..MaxIterFrames } }
    \cup { StreamFile(<<WriteFrame(120), EndFrame>>) \o SubSeq(WriteFrame(121), 1, 5),
           StreamFile(<<WriteFrame(120)>>) \o SubSeq(EndFrame, 1, 7),
           StreamFile(<<UnknownKindFrame, EndFrame>>) }
    \cup { h \o WriteFrame(120) \o EndFrame : h \in HeaderInputs }

IterJobs == { [op |-> "iter", input |-> b] : b \in IterSources }

CodecOthersIdle == ConcatIdle /\ FsckIdle /\ LoadIdle /\ ServerIdle

\* BtrfsCommandIter::new over the byte source
IterNew ==
    /\ cpc = "start" /\ cjob.op = "iter"
    /\ \E r \in {BtrfsCommandIter_new(cjob.input)} :
         /\ cres' = r
         /\ cit' = IF is_ok(r) THEN Some(r.val) ELSE None
         /\ cpc' = IF is_ok(r) THEN "call" ELSE "done"
    /\ UNCHANGED <<cjob, ccalls, concat_vars, fsck_vars, load_vars, server_vars>>

\* One call to next(); the caller stops after MaxCalls calls or a failure
IterCall ==
    /\ cpc = "call" /\ cjob.op = "iter"
    /\ Len(ccalls) < MaxCalls
    /\ \E r \in {BtrfsCommandIter_next(cjob.input, unwrap(cit))} :
         /\ ccalls' = Append(ccalls,
                [tag |-> r.tag,
                 cmd |-> IF r.tag = "Some" THEN Some(r.cmd) ELSE None,
                 before |-> unwrap(cit).pos,
                 after |-> IF r.tag = "Panic" THEN unwrap(cit).pos ELSE r.it.pos])
         /\ cit' = IF r.tag = "Panic" THEN cit ELSE Some(r.it)
         /\ cpc' = IF r.tag = "Panic" THEN "done" ELSE cpc
    /\ UNCHANGED <<cjob, cres, concat_vars, fsck_vars, load_vars, server_vars>>

\* BtrfsHeader::parse on the bytes of the job
HeaderParse ==
    /\ cpc = "start" /\ cjob.op = "header"
    /\ cres' = BtrfsHeader_parse(cjob.input, 0)
    /\ cpc' = "done"
    /\ UNCHANGED <<cjob, cit, ccalls, concat_vars, fsck_vars, load_vars, server_vars>>

\* BtrfsHeader::parse on the bytes serialize returns for the header of the job
HeaderRoundTrip ==
    /\ cpc = "start" /\ cjob.op = "header_roundtrip"
    /\ cres' = BtrfsHeader_parse(BtrfsHeader_serialize(cjob.header), 0)
    /\ cpc' = "done"
    /\ UNCHANGED <<cjob, cit, ccalls, concat_vars, fsck_vars, load_vars, server_vars>>

HeaderJobs ==
    { [op |-> "header", input |-> b] : b \in HeaderInputs \cup IterSources }
    \cup { [op |-> "header_roundtrip", header |-> [version |-> v]] :
              v \in {0, 1, 2, 257, 3 * 65536, 5 * 65536 * 256} }

Command(kind, crc32, data) == [len |-> Len(data), kind |-> kind, crc32 |-> crc32, data |-> data]

\* BtrfsCommand::parse on the bytes serialize returns for the command of the job
CommandRoundTrip ==
    /\ cpc = "start" /\ cjob.op = "command_roundtrip"
    /\ cres' = BtrfsCommand_parse(BtrfsCommand_serialize(cjob.command), 0)
    /\ cpc' = "done"
    /\ UNCHANGED <<cjob, cit, ccalls, concat_vars, fsck_vars, load_vars, server_vars>>

\* serialize on the command BtrfsCommand::parse returns for the bytes of the job
FrameRoundTrip ==
    /\ cpc = "start" /\ cjob.op = "frame_roundtrip"
    /\ \E parsed \in {BtrfsCommand_parse(cjob.input, 0)} :
         cres' = IF is_ok(parsed)
                 THEN Ok(BtrfsCommand_serialize(
                          [len |-> parsed.val.len, kind |-> parsed.val.kind,
                           crc32 |-> parsed.val.crc32, data |-> parsed.val.data]))
                 ELSE parsed
    /\ cpc' = "done"
    /\ UNCHANGED <<cjob, cit, ccalls, concat_vars, fsck_vars, load_vars, server_vars>>

CommandKinds ==
    { 0, BTRFS_SEND_C_SUBVOL, BTRFS_SEND_C_WRITE, BTRFS_SEND_C_END, BTRFS_SEND_C_UPDATE_EXTENT }
CommandPayloads ==
    { <<>>, <<9>>, <<1, 2, 3>>, Tlv(15, NameA) \o Tlv(1, Uuid(1)) \o Tlv(2, write_le(7, 8)) }

RoundTripJobs ==
    { [op |-> "command_roundtrip", command |-> Command(k, c, d)] :
          k \in CommandKinds, c \in {0, 70000}, d \in CommandPayloads }
    \cup { [op |-> "command_roundtrip", command |-> BtrfsCommand_from_kind(k, d)] :
              k \in CommandKinds, d \in CommandPayloads }
    \cup { [op |-> "frame_roundtrip", input |-> GoodFrame(k, d)] :
              k \in CommandKinds, d \in CommandPayloads }
    \cup { [op |-> "frame_roundtrip", input |-> RawFrame(k, 70000, d)] :
              k \in CommandKinds, d \in CommandPayloads }
    \cup { [op |-> "frame_roundtrip", input |-> b] :
              b \in { SubSeq(WriteFrame(120), 1, 10), SubSeq(EndFrame, 1, 3), <<>> } }

\* The payload bytes of a list of TLV entries
Tlvs(entries) == Flatten([i \in 1..Len(entries) |-> Tlv(entries[i].tag, entries[i].data)])

\* BtrfsSubvol::load on the payload of the job
SubvolParse ==
    /\ cpc = "start" /\ cjob.op = "subvol"
    /\ cres' = BtrfsSubvol_parse(Tlvs(cjob.entries))
    /\ cpc' = "done"
    /\ UNCHANGED <<cjob, cit, ccalls, concat_vars, fsck_vars, load_vars, server_vars>>

\* BtrfsSnapshot::load on the payload of the job
SnapshotParse ==
    /\ cpc = "start" /\ cjob.op = "snapshot"
    /\ cres' = BtrfsSnapshot_parse(Tlvs(cjob.entries))
    /\ cpc' = "done"
    /\ UNCHANGED <<cjob, cit, ccalls, concat_vars, fsck_vars, load_vars, server_vars>>

Filler(n) == [i \in 1..n |-> IF i = 1 THEN 7 ELSE 0]
SubvolOrders ==
    { <<15, 1, 2>>, <<15, 2, 1>>, <<1, 15, 2>>, <<1, 2, 15>>, <<2, 1, 15>>, <<2, 15, 1>>,
      <<15, 1, 3>>, <<15, 20, 2>>, <<15, 1>> }
SnapshotOrders ==
    { <<15, 1, 2, 20, 21>>, <<15, 1, 2, 21, 20>>, <<15, 20, 2, 1, 21>>,
      <<15, 1, 2, 20, 2>>, <<1, 15, 2, 20, 21>>, <<15, 1, 2, 20>> }
\* lens[i] is the length of the value of the i-th entry when its tag is a
\* uuid or a transid tag; a name has the bytes of NameA
Entries(order, lens) ==
    [i \in 1..Len(order) |->
        [tag |-> order[i],
         data |-> IF order[i] = 15 THEN NameA ELSE Filler(lens[i])]]
SubvolLens ==
    { <<1, 16, 8>>, <<1, 15, 8>>, <<1, 17, 8>>, <<1, 16, 7>>, <<1, 16, 9>>, <<1, 16, 0>> }
SnapshotLens ==
    { <<1, 16, 8, 16, 8>>, <<1, 15, 8, 16, 8>>, <<1, 17, 8, 16, 8>>, <<1, 16, 7, 16, 8>>,
      <<1, 16, 9, 16, 8>>, <<1, 16, 8, 15, 8>>, <<1, 16, 8, 17, 8>>, <<1, 16, 8, 16, 7>>,
      <<1, 16, 8, 16, 9>> }
PayloadJobs ==
    { [op |-> "subvol", entries |-> Entries(o, l)] : o \in SubvolOrders, l \in SubvolLens }
    \cup { [op |-> "snapshot", entries |-> Entries(o, l)] :
              o \in SnapshotOrders, l \in SnapshotLens }

\* calculate_crc32, get_crc32 and validate_crc32 of the raw buffer of the job,
\* and calculate_crc32 of the command parsed from it
CrcCalc ==
    /\ cpc = "start" /\ cjob.op = "crc"
    /\ \E parsed \in {BtrfsCommandBuf_parse(cjob.input)} :
         cres' = [calculated |-> BtrfsCommandBuf_calculate_crc32(cjob.input),
                  stored |-> get_crc32(cjob.input),
                  valid |-> BtrfsCommandBuf_validate_crc32(cjob.input),
                  typed |-> IF is_ok(parsed)
                            THEN Some(BtrfsCommand_calculate_crc32(parsed.val))
                            ELSE None]
    /\ cpc' = "done"
    /\ UNCHANGED <<cjob, cit, ccalls, concat_vars, fsck_vars, load_vars, server_vars>>

\* The raw buffer read back from the serialized command, with its validate_crc32
Built(cmd) ==
    Let(BtrfsCommandBuf_read(BtrfsCommand_serialize(cmd), 0), LAMBDA reread :
    IF ~is_ok(reread) THEN reread
    ELSE Ok([frame |-> reread.val.buf,
             valid |-> BtrfsCommandBuf_validate_crc32(reread.val.buf),
             typed_valid |-> cmd.crc32 = BtrfsCommand_calculate_crc32(cmd)]))

\* BtrfsCommand::from_kind(kind, data).serialize()
BuildFrame ==
    /\ cpc = "start" /\ cjob.op = "build"
    /\ cres' = Built(BtrfsCommand_from_kind(cjob.kind, cjob.data))
    /\ cpc' = "done"
    /\ UNCHANGED <<cjob, cit, ccalls, concat_vars, fsck_vars, load_vars, server_vars>>

\* BtrfsSubvol::encap().serialize()
EncapSubvol ==
    /\ cpc = "start" /\ cjob.op = "encap_subvol"
    /\ cres' = Built(BtrfsSubvol_encap(cjob.subv))
    /\ cpc' = "done"
    /\ UNCHANGED <<cjob, cit, ccalls, concat_vars, fsck_vars, load_vars, server_vars>>

\* BtrfsSnapshot::encap().serialize()
EncapSnapshot ==
    /\ cpc = "start" /\ cjob.op = "encap_snapshot"
    /\ cres' = Built(BtrfsSnapshot_encap(cjob.snap))
    /\ cpc' = "done"
    /\ UNCHANGED <<cjob, cit, ccalls, concat_vars, fsck_vars, load_vars, server_vars>>

CrcJobs ==
    { [op |-> "crc", input |-> RawFrame(k, c, d)] :
          k \in CommandKinds, c \in {0, 1, 70000}, d \in CommandPayloads }
    \cup { [op |-> "crc", input |-> GoodFrame(k, d)] :
              k \in CommandKinds, d \in CommandPayloads }
    \cup { [op |-> "build", kind |-> k, data |-> d] :
              k \in CommandKinds, d \in CommandPayloads }
    \cup { [op |-> "encap_subvol",
            subv |-> [name |-> n, uuid |-> Uuid(u), ctransid |-> t]] :
              n \in {<<>>, NameA, NameC}, u \in {1, 2}, t \in {0, 7, 70000} }
    \cup { [op |-> "encap_snapshot",
            snap |-> [name |-> n, uuid |-> Uuid(u), ctransid |-> t,
                      clone_uuid |-> Uuid(3 - u), clone_ctransid |-> 7]] :
              n \in {<<>>, NameA, NameC}, u \in {1, 2}, t \in {0, 7, 70000} }

CodecJobs == IterJobs \cup HeaderJobs \cup RoundTripJobs \cup PayloadJobs \cup CrcJobs

InitCodec ==
    /\ CodecOthersIdle
    /\ cjob \in CodecJobs
    /\ cpc = "start"
    /\ cres = <<>>
    /\ cit = None
    /\ ccalls = <<>>

NextCodec ==
    \/ IterNew
    \/ IterCall
    \/ HeaderParse
    \/ HeaderRoundTrip
    \/ CommandRoundTrip
    \/ FrameRoundTrip
    \/ SubvolParse
    \/ SnapshotParse
    \/ CrcCalc
    \/ BuildFrame
    \/ EncapSubvol
    \/ EncapSnapshot

SpecCodec == InitCodec /\ [][NextCodec]_vars

----------------------------------------------------------------------------
(* Claims about the codec.                                                 *)
\* The whole frames of the byte source behind the header, as byte strings
SourceFrames == FramesFrom(cjob.input, HeaderLen)
EndsIn(frames) == { j \in 1..Len(frames) : IsEnd(frames[j]) }
FirstEnd(frames) == CHOOSE j \in EndsIn(frames) : \A m \in EndsIn(frames) : j <= m
KnownKind(frame) == KindOf(frame) <= BTRFS_SEND_C_UPDATE_EXTENT

\* C21: the k-th call to next() yields the k-th frame of the source, up to
\* and including the first END; every later call returns None and leaves
\* the position in the byte source where it was; a frame behind the END is
\* never yielded.
C21_IteratorStopsAtEnd ==
    (cjob # <<>> /\ cjob.op = "iter") =>
        LET frames == SourceFrames
            ended == EndsIn(frames) # {}
        IN  \A i \in 1..Len(ccalls) :
              /\ ccalls[i].tag = "Some" =>
                    /\ i <= Len(frames)
                    /\ \A j \in EndsIn(frames) : i <= j
                    /\ RawFrame(unwrap(ccalls[i].cmd).kind, unwrap(ccalls[i].cmd).crc32,
                                unwrap(ccalls[i].cmd).data) = frames[i]
                    /\ ccalls[i].after = ccalls[i].before + Len(frames[i])
              /\ (ended /\ i > FirstEnd(frames)) =>
                    /\ ccalls[i].tag = "None"
                    /\ ccalls[i].after = ccalls[i].before
              /\ ccalls[i].tag = "None" => (ended /\ i > FirstEnd(frames))
              /\ (i <= Len(frames) /\ (\A j \in EndsIn(frames) : i <= j)
                     /\ KnownKind(frames[i])) => ccalls[i].tag = "Some"

\* The END was the second of three frames and next() was called five times
C21_Witness ==
    /\ cjob # <<>> /\ cjob.op = "iter"
    /\ Len(ccalls) = MaxCalls
    /\ Len(SourceFrames) = 3
    /\ FirstEnd(SourceFrames) = 2
    /\ ccalls[2].tag = "Some" /\ ccalls[3].tag = "None" /\ ccalls[MaxCalls].tag = "None"

MagicMatches(bytes) ==
    Len(bytes) >= Len(BTRFS_HEADER_MAGIC)
        /\ SubSeq(bytes, 1, Len(BTRFS_HEADER_MAGIC)) = BTRFS_HEADER_MAGIC
MagicDiffers(bytes) ==
    Len(bytes) >= Len(BTRFS_HEADER_MAGIC)
        /\ SubSeq(bytes, 1, Len(BTRFS_HEADER_MAGIC)) # BTRFS_HEADER_MAGIC
VersionOf(bytes) == le_value(SubSeq(bytes, Len(BTRFS_HEADER_MAGIC) + 1, HeaderLen))
InvalidMagic == Err([kind |-> "ProtocolError", io |-> "Invalid magic"])
InvalidVersion == Err([kind |-> "InvalidVersion", io |-> ""])
Done(op) == cjob # <<>> /\ cjob.op = op /\ cpc = "done"

\* C22: BtrfsHeader::parse returns ProtocolError("Invalid magic") when the
\* first 13 bytes differ from the magic, InvalidVersion when the magic
\* matches and the version is not 1, a header only for version 1, and
\* parse(serialize(H)) = H for an accepted header.
C22_HeaderParse ==
    /\ Done("header") =>
          /\ MagicDiffers(cjob.input) => cres = InvalidMagic
          /\ (MagicMatches(cjob.input) /\ Len(cjob.input) >= HeaderLen
                 /\ VersionOf(cjob.input) # 1) => cres = InvalidVersion
          /\ is_ok(cres) => cres.val.version = 1
    /\ Done("header_roundtrip") =>
          (cjob.header.version = 1 => (is_ok(cres) /\ cres.val.version = cjob.header.version))

\* C22 as the code has it: BtrfsHeader::parse returns ProtocolError("Invalid
\* magic") when the first 13 bytes differ from the magic and otherwise a
\* header with the version it read, whatever it is; the version is checked
\* by BtrfsCommandIter::new, which returns InvalidVersion when the magic
\* matches and the version is not 1 and an iterator only for version 1;
\* parse(serialize(H)) = H for every header H.
C22_HeaderParseVersionInNew ==
    /\ Done("header") =>
          /\ MagicDiffers(cjob.input) => cres = InvalidMagic
          /\ (MagicMatches(cjob.input) /\ Len(cjob.input) >= HeaderLen) =>
                 cres = Ok([version |-> VersionOf(cjob.input), pos |-> HeaderLen])
          /\ is_ok(cres) => (MagicMatches(cjob.input) /\ Len(cjob.input) >= HeaderLen)
    /\ (cjob # <<>> /\ cjob.op = "iter" /\ cpc # "start") =>
          /\ MagicDiffers(cjob.input) => cres = InvalidMagic
          /\ (MagicMatches(cjob.input) /\ Len(cjob.input) >= HeaderLen
                 /\ VersionOf(cjob.input) # 1) => cres = InvalidVersion
          /\ is_ok(cres) => (MagicMatches(cjob.input) /\ Len(cjob.input) >= HeaderLen
                                /\ VersionOf(cjob.input) = 1)
    /\ Done("header_roundtrip") =>
          cres = Ok([version |-> cjob.header.version, pos |-> HeaderLen])

\* parse accepted a header of version 2
C22_Witness ==
    /\ Done("header")
    /\ MagicMatches(cjob.input)
    /\ is_ok(cres) /\ cres.val.version = 2

Fields(cmd) == [len |-> cmd.len, kind |-> cmd.kind, crc32 |-> cmd.crc32, data |-> cmd.data]

\* The CRC of a frame: over its bytes with the CRC field zeroed
FrameCrc(len, kind, data) ==
    crc32c(0, write_le(len, 4) \o write_le(kind, 2) \o <<0, 0, 0, 0>> \o data)

\* A whole frame of a defined kind and nothing else
WellFramed(b) ==
    /\ Len(b) >= 10
    /\ le_value(SubSeq(b, 1, 4)) = Len(b) - 10
    /\ KnownKind(b)

StoredCrcValid(b) ==
    get_crc32(b) = FrameCrc(Len(b) - 10, KindOf(b), DropBytes(b, 10))

\* C23: parse(serialize(C)) = C field for field for every command C, with
\* any value of its crc32 field, and serialize(parse(B)) = B byte for byte
\* for every well-formed frame B.
C23_RoundTrip ==
    /\ Done("command_roundtrip") => (is_ok(cres) /\ Fields(cres.val) = cjob.command)
    /\ (Done("frame_roundtrip") /\ WellFramed(cjob.input) /\ StoredCrcValid(cjob.input)) =>
          cres = Ok(cjob.input)

\* C23 as the code has it: serialize writes the recomputed CRC, so
\* parse(serialize(C)) is C with its crc32 field replaced by the CRC of C,
\* and equals C exactly when that field held the CRC; serialize(parse(B))
\* is B with the stored CRC replaced by the CRC of B, and equals B exactly
\* when the stored CRC of B is valid.
C23_RoundTripUpToCrc ==
    /\ Done("command_roundtrip") =>
          /\ is_ok(cres)
          /\ Fields(cres.val) =
                [cjob.command EXCEPT !.crc32 =
                    FrameCrc(cjob.command.len, cjob.command.kind, cjob.command.data)]
          /\ (Fields(cres.val) = cjob.command) <=>
                (cjob.command.crc32 = FrameCrc(cjob.command.len, cjob.command.kind, cjob.command.data))
          /\ cres.val.pos = 10 + cjob.command.len
    /\ (Done("frame_roundtrip") /\ WellFramed(cjob.input)) =>
          /\ cres = Ok(RawFrame(KindOf(cjob.input),
                                 FrameCrc(Len(cjob.input) - 10, KindOf(cjob.input),
                                          DropBytes(cjob.input, 10)),
                                 DropBytes(cjob.input, 10)))
          /\ (cres = Ok(cjob.input)) <=> StoredCrcValid(cjob.input)

\* A command whose crc32 field did not hold its CRC came back changed
C23_Witness ==
    /\ Done("command_roundtrip")
    /\ is_ok(cres)
    /\ cjob.command.data # <<>>
    /\ cres.val.crc32 # cjob.command.crc32

\* The tags and the fixed lengths the typed parsers expect, by position
ExpectedTags(op) == IF op = "subvol" THEN <<15, 1, 2>> ELSE <<15, 1, 2, 20, 21>>
FixedLen(tag) == IF tag \in {1, 20} THEN 16 ELSE IF tag \in {2, 21} THEN 8 ELSE -1

TagsOf(entries) == [i \in 1..Len(entries) |-> entries[i].tag]
Strict(op, entries) ==
    /\ TagsOf(entries) = ExpectedTags(op)
    /\ \A i \in 1..Len(entries) :
          FixedLen(entries[i].tag) # -1 => Len(entries[i].data) = FixedLen(entries[i].tag)

\* The first position where the entries leave the expected layout is a
\* wrong tag or a wrong fixed length (not a payload that merely ends early)
Deviates(op, entries) ==
    \E i \in 1..Len(entries) :
        /\ i <= Len(ExpectedTags(op))
        /\ \A j \in 1..(i - 1) :
              /\ entries[j].tag = ExpectedTags(op)[j]
              /\ FixedLen(entries[j].tag) # -1 =>
                    Len(entries[j].data) = FixedLen(entries[j].tag)
        /\ \/ entries[i].tag # ExpectedTags(op)[i]
           \/ /\ FixedLen(entries[i].tag) # -1
              /\ Len(entries[i].data) # FixedLen(entries[i].tag)

IsProtocolError(r) == r.tag = "Err" /\ r.err.kind = "ProtocolError"

\* C24: BtrfsSubvol::parse and BtrfsSnapshot::parse succeed only on the TLVs
\* 15, 1, 2 (then 20, 21) in that order with uuid values of 16 bytes and
\* transid values of 8 bytes; a wrong tag or a wrong fixed length, shorter or
\* longer, yields a ProtocolError.
C24_StrictDecoding ==
    (Done("subvol") \/ Done("snapshot")) =>
        /\ is_ok(cres) => Strict(cjob.op, cjob.entries)
        /\ Deviates(cjob.op, cjob.entries) => IsProtocolError(cres)

----------------------------------------------------------------------------
(* The concat engine, frame by frame *)
\* What BtrfsCommandBuf::read returns at the position of the active reader
NextRead ==
    IF is_some(reader)
    THEN BtrfsCommandBuf_read(files[unwrap(reader).file], unwrap(reader).pos)
    ELSE Err("no reader")

\* The next turn of the loop fetches a whole frame of an undefined kind
UnknownKindNext == pc = "iter" /\ is_ok(NextRead) /\ ~KnownKind(NextRead.val.buf)

\* C25: when the engine fetches a well-framed command whose kind is not one
\* of the defined kinds, it writes that frame unmodified and goes on with
\* the next frame, without failing.
C25_UnknownKindTolerated ==
    [][UnknownKindNext =>
          (pc' = "iter" /\ stdout_w' = Append(stdout_w, NextRead.val.buf))]_vars

\* The next turn of the loop fetches a whole frame of the given kind
FetchesNext(kind) == pc = "iter" /\ is_ok(NextRead) /\ KindOf(NextRead.val.buf) = kind

Aborted == pc' = "exit" /\ outcome' \in {"panic: iter", "panic: chain break"}

\* C27: a SUBVOL fetched while no current uuid is held sets curr_uuid to the
\* uuid of the SUBVOL as read and the run goes on; a SUBVOL fetched while a
\* current uuid is held, and a SNAPSHOT fetched while none is held, end the
\* run with a task failure and nothing more written.
C27_SingleRoot ==
    [][/\ (FetchesNext(BTRFS_SEND_C_SUBVOL) /\ curr_uuid = None
             /\ is_ok(BtrfsSubvol_parse(get_data(NextRead.val.buf)))) =>
               /\ curr_uuid' = Some(BtrfsSubvol_parse(get_data(NextRead.val.buf)).val.uuid)
               /\ pc' = "iter"
               /\ Len(stdout_w') = Len(stdout_w) + 1
       /\ (FetchesNext(BTRFS_SEND_C_SUBVOL) /\ curr_uuid # None) =>
               (Aborted /\ stdout_w' = stdout_w /\ curr_uuid' = curr_uuid)
       /\ (FetchesNext(BTRFS_SEND_C_SNAPSHOT) /\ curr_uuid = None) =>
               (Aborted /\ stdout_w' = stdout_w /\ curr_uuid' = curr_uuid)]_vars

\* A head file with two SUBVOL frames: the first was written, the second
\* ended the run
C27_Witness ==
    /\ pc = "exit"
    /\ outcome = "panic: iter"
    /\ Len(FramesOf(1)) >= 2
    /\ IsSubvol(FramesOf(1)[1])
    /\ IsSubvol(FramesOf(1)[2])
    /\ Len(stdout_w) = 2
    /\ curr_uuid = Some(Uuid(1))

\* The frames of the input files, taken in list order
RECURSIVE InputFramesUpTo(_)
InputFramesUpTo(i) == IF i = 0 THEN <<>> ELSE InputFramesUpTo(i - 1) \o FramesOf(i)

\* a can be obtained from b by dropping elements
RECURSIVE IsSubsequence(_, _)
IsSubsequence(a, b) ==
    IF a = <<>> THEN TRUE
    ELSE IF b = <<>> THEN FALSE
    ELSE IF Head(a) = Head(b) THEN IsSubsequence(Tail(a), Tail(b))
    ELSE IsSubsequence(a, Tail(b))

\* The frames as read that the frames written stem from
EmittedRaws == [j \in 1..Len(EmittedBufs) |-> EmittedBufs[j].raw]

\* C28: every frame written other than the one renamed SUBVOL is byte for
\* byte a frame read from an input file, stored CRC included, and the frames
\* written stand in the order of the inputs taken in list order.
C28_PassThrough ==
    /\ Len(OutFrames) = Len(EmittedRaws)
    /\ \A j \in 1..Len(OutFrames) :
          OutFrames[j] # EmittedRaws[j] =>
              /\ IsSubvol(EmittedRaws[j])
              /\ IsSubvol(OutFrames[j])
              /\ \A k \in 1..Len(OutFrames) : OutFrames[k] # EmittedRaws[k] => k = j
    /\ IsSubsequence(EmittedRaws, InputFramesUpTo(NumFiles))

\* A frame with a wrong stored CRC was written as it was read, behind the
\* renamed SUBVOL
C28_Witness ==
    /\ Len(OutFrames) >= 3
    /\ OutFrames[1] # FramesOf(1)[1]
    /\ OutFrames[2] = BadCrcFrame
    /\ get_crc32(OutFrames[2]) # BtrfsCommandBuf_calculate_crc32(OutFrames[2])
    /\ OutFrames[3] = FramesOf(1)[3]

\* The run ended on an error that current_command returned
ErrorSurfaced ==
    /\ pc = "exit"
    /\ outcome \in {"ReadError(EndOfFile)", "ReadError", "panic: during read of path"}
    /\ is_some(reader)

\* The bytes left in the file of the active reader
Remaining == Len(files[unwrap(reader).file]) - unwrap(reader).pos

\* C29: a read error other than clean EOF (here: the file of the active
\* reader ends inside a frame) is surfaced with the path of that file, for
\* the head file as for any other.
C29_ErrorAnnotated ==
    (ErrorSurfaced /\ Remaining > 0) =>
        /\ outcome = "panic: during read of path"
        /\ current_path = Some(unwrap(reader).file)

\* C30: BtrfsCommandBuf::read reports end-of-file only when the source is
\* exhausted before the 4-byte length is complete; a source that ends inside
\* the 2+4+L bytes behind the length is a protocol error, so the engine
\* does not end on (or advance past) a file truncated in mid-frame as it
\* does on a clean EOF.
C30_TruncationIsNotEof ==
    (ErrorSurfaced /\ ~is_ok(NextRead)) =>
        /\ NextRead.err = "EndOfFile" <=> Remaining < 4
        /\ Remaining >= 4 => outcome # "ReadError(EndOfFile)"

----------------------------------------------------------------------------
(* server_fsck.rs: main.  Repository::load_from_nofsck is the loader with   *)
(* its fsck parameter false: the loop of load over the paths, and every     *)
(* node handed to the caller.                                               *)
\* One turn of the loop of the loader
NofsckFile ==
    /\ lpc = "nofsck"
    /\ lidx <= Len(dir)
    /\ \E r \in {load_path(lidx)} :
          /\ repo_nodes' = IF is_ok(r) THEN Append(repo_nodes, r.val) ELSE repo_nodes
          /\ lpc' = IF r.tag = "Panic" THEN "panic" ELSE lpc
    /\ lidx' = lidx + 1
    /\ UNCHANGED <<dir, nodes_before, printed, concat_vars, fsck_vars, server_vars, codec_vars>>

\* lines 97-103: by_uuid[u] is the list of the nodes with uuid u
by_uuid(node_list, u) == SelectSeq(node_list, LAMBDA n : n.uuid = u)

\* lines 105-114: for every orphan uuid, in the order the HashSet yields
\* them, one line per node of its list
RECURSIVE orphan_lines(_, _)
orphan_lines(node_list, order) ==
    IF order = <<>> THEN <<>>
    ELSE [i \in 1..Len(by_uuid(node_list, Head(order))) |->
             by_uuid(node_list, Head(order))[i].path]
         \o orphan_lines(node_list, Tail(order))

\* lines 91-114: find_orphans on the loaded nodes and the report
FsckReport ==
    /\ lpc = "nofsck"
    /\ lidx > Len(dir)
    /\ \E order \in SetOrders(find_orphans(repo_nodes).out) :
          printed' = orphan_lines(repo_nodes, order)
    /\ lpc' = "reported"
    /\ UNCHANGED <<dir, lidx, repo_nodes, nodes_before, concat_vars, fsck_vars, server_vars, codec_vars>>

InitFsckTool ==
    /\ ConcatIdle
    /\ FsckIdle
    /\ ServerIdle
    /\ CodecIdle
    /\ dir \in Directories
    /\ lpc = "nofsck"
    /\ lidx = 1
    /\ repo_nodes = <<>>
    /\ nodes_before = <<>>
    /\ printed = <<>>

NextFsckTool == NofsckFile \/ FsckReport

SpecFsckTool == InitFsckTool /\ [][NextFsckTool]_vars

\* The number of orphan lines printed for a path
LinesFor(path) == Cardinality({ k \in 1..Len(printed) : printed[k] = path })

\* C26: the fsck tool prints exactly one orphan line for each loaded node
\* that is an orphan (an Incremental node that no parent chain connects to a
\* Full node) and none for a node that is reachable from a Full node, also
\* when several files share a uuid.
C26_FsckReport ==
    lpc = "reported" =>
        \A i \in 1..Len(repo_nodes) :
            LinesFor(repo_nodes[i].path) =
                IF ReachesFullIn(repo_nodes, i) THEN 0 ELSE 1

----------------------------------------------------------------------------
(* The fixpoint of find_orphans with the compaction applied at another     *)
(* threshold: the list is rewritten when scanned * num <= den * found.     *)
compact_at(recs, scanned, found, num, den) ==
    IF scanned * num <= den * found
    THEN SelectSeq(recs, LAMBDA r : ~r.is_reachable)
    ELSE recs

RECURSIVE fixpoint_at(_, _, _, _)
fixpoint_at(recs, rr, num, den) ==
    LET sc == scan(recs, rr) IN
    IF sc.changed
    THEN fixpoint_at(compact_at(sc.records, sc.total_scanned, sc.reachables_found, num, den),
                     sc.root_reachable, num, den)
    ELSE collect(sc.records)

\* never (only an empty scan qualifies), at one half, only when every record
\* is reachable, and after every pass
Thresholds == { <<1, 0>>, <<2, 1>>, <<1, 1>>, <<0, 1>> }

Pending(recs) == SelectSeq(recs, LAMBDA r : ~r.is_reachable)

\* C31: find_orphans with the 75% compaction returns the set the same
\* fixpoint returns with compaction never applied or applied at any other
\* threshold; a pass removes from the list only records marked reachable,
\* and their uuids are in root_reachable afterwards.
C31_CompactionNeutral ==
    /\ [](fpc = "done" =>
            \A t \in Thresholds :
                out = fixpoint_at(partition(nodes).records,
                                  partition(nodes).root_reachable, t[1], t[2]))
    /\ [][fpc = "loop" =>
            LET sc == scan(records, root_reachable) IN
            /\ records' \in {sc.records, Pending(sc.records)}
            /\ Pending(records') = Pending(sc.records)
            /\ \A j \in 1..Len(sc.records) :
                  sc.records[j].is_reachable => sc.records[j].uuid \in root_reachable']_vars

\* A run in which a pass dropped reachable records and an orphan was returned
C31_Witness ==
    /\ fpc = "done"
    /\ out # {}
    /\ passes >= 2
    /\ Len(records) < NumIncr
    /\ NumIncr >= 3

----------------------------------------------------------------------------
(* The CRC of a frame *)
\* The buffer with other bytes in its CRC field
WithStoredCrc(buf, c) == SubSeq(buf, 1, 6) \o write_le(c, 4) \o DropBytes(buf, 10)

\* C32: calculate_crc32 of a raw buffer is the CRC over its bytes [0,6),
\* four zero bytes and its bytes [10,end), whatever the stored CRC bytes;
\* it equals calculate_crc32 of the command parsed from the buffer; and
\* every frame built by from_kind or encap and serialize has stored CRC =
\* calculated CRC.
C32_BlankedCrc ==
    /\ Done("crc") =>
          /\ cres.calculated =
                FrameCrc(Len(cjob.input) - 10, KindOf(cjob.input), DropBytes(cjob.input, 10))
          /\ \A c \in {0, 1, 255, 70000, cres.calculated} :
                BtrfsCommandBuf_calculate_crc32(WithStoredCrc(cjob.input, c)) = cres.calculated
          /\ cres.typed = Some(cres.calculated)
          /\ cres.valid <=> (cres.stored = cres.calculated)
    /\ (Done("build") \/ Done("encap_subvol") \/ Done("encap_snapshot")) =>
          /\ is_ok(cres)
          /\ cres.val.valid
          /\ cres.val.typed_valid
          /\ get_crc32(cres.val.frame) = BtrfsCommandBuf_calculate_crc32(cres.val.frame)

\* A buffer with a wrong stored CRC: both calculations agree and differ from it
C32_Witness ==
    /\ Done("crc")
    /\ ~cres.valid
    /\ cres.stored = 70000
    /\ cres.typed = Some(cres.calculated)
    /\ Len(cjob.input) > 10

----------------------------------------------------------------------------
(* The repository of a server session *)
\* The uuid stands somewhere in the bytes
Reports(bytes, uuid) ==
    \E p \in 0..(Len(bytes) - Len(uuid)) : SubSeq(bytes, p + 1, p + Len(uuid)) = uuid

\* The objects stored under their final name so far
Uploaded(i) ==
    { events[j].object : j \in { m \in 1..(i - 1) : events[m].e = "rename" /\ events[m].ok } }

QueryReturns ==
    { i \in 1..Len(events) :
        events[i].e = "return" /\ events[i].op \in {FindNodes, ListNodes, GetGraph} }

\* C33: no step of a session changes the node list of the repository; a
\* FindNodes, ListNodes or GetGraph dispatch that returns Ok has written
\* the reply computed from the nodes as loaded, before and after an upload,
\* and no reply holds the uuid of an object uploaded in the session.
C33_FrozenRepository ==
    /\ [][srepo' = srepo]_vars
    /\ [](\A i \in QueryReturns :
            /\ (events[i].ok /\ events[i].op = ListNodes) =>
                   events[i].bytes = Flatten(list_nodes_writes(srepo))
            /\ (events[i].ok /\ events[i].op = GetGraph) =>
                   events[i].bytes = Flatten(get_graph_writes(srepo))
            /\ (events[i].ok /\ events[i].op = FindNodes) =>
                   \E order \in find_nodes_orders(events[i].list, srepo) :
                       events[i].bytes =
                           Flatten(find_nodes_writes(events[i].list, srepo, order))
            /\ \A o \in Uploaded(i) : ~Reports(events[i].bytes, ObjectUuid(o)))

\* An archive was stored and acknowledged, and the ListNodes behind it
\* answered with the nodes of the repository as loaded
C33_Witness ==
    /\ srepo # <<>>
    /\ \E i \in QueryReturns :
          /\ events[i].ok
          /\ events[i].op = ListNodes
          /\ Uploaded(i) # {}
          /\ \E j \in 1..(i - 1) :
                events[j].e = "return" /\ events[j].op = UploadArchive /\ events[j].ok

----------------------------------------------------------------------------
(* The state of find_orphans between two records of a pass *)
\* Every marked record has its uuid in rr, and every uuid in rr is the uuid
\* of a Full node or of an Incremental node whose parent_uuid is in rr
Sound(recs, rr) ==
    /\ \A j \in 1..Len(recs) : recs[j].is_reachable => recs[j].uuid \in rr
    /\ \A u \in rr :
          \E i \in NodeIdx :
              /\ nodes[i].uuid = u
              /\ IsFull(i) \/ unwrap(nodes[i].parent_uuid) \in rr

\* The state after the first k records of the running pass were visited
MidPass(k) ==
    LET sc == scan(SubSeq(records, 1, k), root_reachable) IN
    [records |-> sc.records \o SubSeq(records, k + 1, Len(records)),
     root_reachable |-> sc.root_reachable]

\* C34: in every state of find_orphans, between passes and between the
\* records of a pass, every record marked reachable has its uuid in
\* root_reachable and every uuid in root_reachable is the uuid of a Full node
\* or of an Incremental node whose parent_uuid is in root_reachable;
\* root_reachable only grows and no marked record is unmarked again.
C34_FixpointSound ==
    /\ [](/\ Sound(records, root_reachable)
          /\ fpc = "loop" =>
                \A k \in 0..Len(records) :
                    /\ Sound(MidPass(k).records, MidPass(k).root_reachable)
                    /\ root_reachable \subseteq MidPass(k).root_reachable
                    /\ Len(MidPass(k).records) = Len(records)
                    /\ \A j \in 1..Len(records) :
                          records[j].is_reachable => MidPass(k).records[j].is_reachable)
    /\ [][/\ root_reachable \subseteq root_reachable'
          /\ fpc = "loop" => IsSubsequence(Pending(records'), Pending(records))]_vars

\* Between two passes: a record is marked, another is still pending, and
\* root_reachable holds the uuid of a Full and of an Incremental node
C34_Witness ==
    /\ fpc = "loop"
    /\ passes >= 1
    /\ \E j \in 1..Len(records) : records[j].is_reachable
    /\ \E j \in 1..Len(records) : ~records[j].is_reachable
    /\ \E i, m \in NodeIdx :
          /\ IsFull(i) /\ IsIncr(m) /\ nodes[i].uuid # nodes[m].uuid
          /\ {nodes[i].uuid, nodes[m].uuid} \subseteq root_reachable

----------------------------------------------------------------------------
(* The pruning load and the nodes that reach a Full node *)
\* list holds the node n
Holds(list, n) == \E j \in 1..Len(list) : list[j] = n

\* C35: the list returned by the pruning load holds every Full node and every
\* Incremental node whose parent chain ends at a Full node, whatever the
\* directory holds, files that share a uuid with an orphan included.
C35_ReachableKept ==
    lpc = "done" =>
        \A i \in 1..Len(nodes_before) :
            ReachesFullIn(nodes_before, i) => Holds(repo_nodes, nodes_before[i])

\* The same, for the directories whose nodes have pairwise distinct uuids
C35_ReachableKeptDistinct ==
    (lpc = "done" /\ DistinctUuids(nodes_before)) =>
        \A i \in 1..Len(nodes_before) :
            ReachesFullIn(nodes_before, i) => Holds(repo_nodes, nodes_before[i])

====
